---- MODULE Spec2Model ----
(***************************************************************************)
(* TLDBotto: the TestFlight onboarding pipeline (reaction roles, tester    *)
(* registration, moderator approval, removal) and the remote configuration *)
(* cache behind it.                                                        *)
(*                                                                         *)
(* A handler is a coroutine: it runs atomically from one await to the next *)
(* and other coroutines run in between.  Every handler below is cut at its *)
(* awaits; "pc" is the await a coroutine is suspended at.                  *)
(*                                                                         *)
(* The sources under src/ come from several versions of the repository.    *)
(* Where a caller and the callee it names disagree only in the calling     *)
(* convention, the callee's body is taken for what the call does:          *)
(*   - find_tester(x) (reaction_roles.py:236) is find_tester(discord_id=x) *)
(*     of beta_testers_storage.py:107-132;                                 *)
(*   - testing_request.approved = True (reaction_roles.py:448) stores      *)
(*     True in _approved, the field the approved property of               *)
(*     storage/beta_testers/model.py:136-138 reads;                        *)
(*   - ConfigEntry.parsed_value (reaction_roles.py:136,147,154) is the     *)
(*     decoded value of the entry, which models.py:180-192 does not define.*)
(* Everything inside one function is modelled as written.                  *)
(***************************************************************************)
EXTENDS Integers, Sequences, FiniteSets, TLC

\* ---------------------------------------------------------------- bounds
MaxConc == 2     \* handlers in flight at once
MaxEvents == 2   \* gateway events delivered in all
MaxPrompts == 3  \* gateway events delivered where the clock runs
MaxPipeline == 3  \* gateway events delivered to the whole pipeline
MaxLookups == 3   \* get_config calls and reactions where the caches refresh
MaxRuns == 1      \* scheduled runs of refresh_cache
MaxForms == 1    \* registration forms submitted in all
MaxTime == 3     \* last tick of the clock
MaxCalls == 6         \* calls of the record store client
MaxPages == 2         \* pages a listing of the record store has
MaxArrivals == 4      \* handlers that reach the lock of their user in all
MaxIterations == 3    \* listings of a store path that are started in all


\* timedelta(minutes=30), in ticks of ten minutes
RegistrationWindow == 3

Events == 1..MaxConc

\* ------------------------------------------------------- the guild at hand
Msg == [gated |-> 101, multi |-> 102, second |-> 103, rules |-> 104,
        plain |-> 105, other |-> 106, leave |-> 107, foreign |-> 108]

ReactionMsgs == {Msg.gated, Msg.multi, Msg.second, Msg.rules, Msg.plain}

Bot == "bot"

\* the applications; A1 names its own approval channel, A2 relies on the
\* guild's default_approvals_channel; A3 has no beta group id and A4 no
\* App Store key id ("" is None)
Apps == [A1 |-> [channel |-> "chA1", roles |-> {"rA1"}, key |-> "k1", group |-> "g1"],
         A2 |-> [channel |-> "",     roles |-> {"rA2"}, key |-> "k1", group |-> "g2"],
         A3 |-> [channel |-> "chA1", roles |-> {"rA3"}, key |-> "k1", group |-> ""],
         A4 |-> [channel |-> "chA1", roles |-> {"rA4"}, key |-> "",   group |-> "g4"]]

AppIds == {"A1", "A2"}

ConfigKeys == {"default_approvals_channel", "rule_agreement_role",
               "rule_agreement_message", "approval_emojis", "removal_emojis"}

TtlKeys == {"default_approvals_channel", "rule_agreement_role"}

\* channels guild.get_channel / client.get_channel can find
GuildChannels == {"chGen", "chA1", "chDef", "chRules"}

\* ------------------------------------------------------------ the records
NoRole == [msg |-> 0, emoji |-> "", role |-> "", apps |-> <<>>, rules |-> FALSE]

NoTester == [id |-> 0, discord |-> "", email |-> "", regMsg |-> 0, leave |-> {}]

NoRequest == [id |-> 0, tester |-> 0, discord |-> "", app |-> "", approved |-> FALSE,
              notif |-> 0, further |-> <<>>, removed |-> FALSE]

\* ReactionRole records of the store (model.py ReactionRole)
AllReactionRoles ==
    { [msg |-> Msg.gated,  emoji |-> "join", role |-> "rA1", apps |-> <<"A1">>,       rules |-> FALSE],
      [msg |-> Msg.multi,  emoji |-> "join", role |-> "rA1", apps |-> <<"A1", "A2">>, rules |-> FALSE],
      [msg |-> Msg.second, emoji |-> "join", role |-> "rA2", apps |-> <<"A2">>,       rules |-> FALSE],
      [msg |-> Msg.rules,  emoji |-> "join", role |-> "rA1", apps |-> <<"A1">>,       rules |-> TRUE],
      [msg |-> Msg.plain,  emoji |-> "join", role |-> "rPlain", apps |-> <<>>,        rules |-> FALSE] }

VARIABLES
    testers,        \* record store: Testers table
    requests,       \* record store: Testing Requests table
    rrStore,        \* record store: Reaction Roles table
    cfgStore,       \* record store: Config table of the guild, key -> value ("" absent)
    nextRec,        \* next record id the store hands out
    watched,        \* BetaTestersStorage.watched_message_ids
    rrCache,        \* BetaTestersStorage.reaction_roles_cache
    approvalsChannelIds, \* BetaTestersStorage.approvals_channel_ids
    cfgCache,       \* ConfigStorage.config_cache, key -> value ("?" not cached)
    negCache,       \* ConfigStorage.config_key_negative_cache
    ttl,            \* ReactionRoles.role_approvals_channels_cache ("?" not cached)
    cfgLock,        \* ConfigStorage.config_lock: holder, then waiters in order
    negLock,        \* ConfigStorage.config_key_negative_cache_lock, likewise
    testerLocks,    \* ReactionRoles.tester_locks: user -> holding event (0 free)
    sent,           \* messages the bot has sent; a message's id is its index
    botReactions,   \* reactions the bot has on messages: <<message, emoji>>
    memberRoles,    \* user -> roles held in the guild
    betaGroups,     \* App Store Connect: <<email, group>> memberships
    pendingMarks,   \* add_reaction calls handed to asyncio.gather, not yet run
    now,            \* wall clock, in ticks of ten minutes
    forms,          \* number of registration forms submitted
    started,        \* number of gateway events delivered
    ev,             \* the handler invocations
    job,            \* the scheduled ConfigStorage.refresh_cache run
    semaphore,      \* Storage.semaphore: the permits left
    calls           \* the Storage._get/_iterate/_modify/_delete calls

vars == <<testers, requests, rrStore, cfgStore, nextRec, watched, rrCache,
          approvalsChannelIds, cfgCache, negCache, ttl, cfgLock, negLock,
          testerLocks, sent, botReactions, memberRoles, betaGroups,
          pendingMarks, now, forms, started, ev, job, semaphore, calls>>

httpVars == <<semaphore, calls>>

handlerVars == <<testers, requests, rrStore, cfgStore, nextRec, watched, rrCache,
                 approvalsChannelIds, cfgCache, negCache, ttl, cfgLock, negLock,
                 testerLocks, sent, botReactions, memberRoles, betaGroups,
                 pendingMarks, now, forms, started, ev, job>>

storeVars == <<testers, requests, rrStore, cfgStore, nextRec>>

cacheVars == <<watched, rrCache, approvalsChannelIds, cfgCache, negCache, ttl>>

lockVars == <<cfgLock, negLock, testerLocks>>

chatVars == <<sent, botReactions, memberRoles>>

IdleEvent == [pc |-> "idle", entry |-> "", user |-> "", msg |-> 0, emoji |-> "",
              rr |-> NoRole, tester |-> NoTester, existing |-> {},
              req |-> NoRequest, repeat |-> FALSE, prev |-> FALSE, groups |-> {},
              locked |-> FALSE, marks |-> {}, completed |-> FALSE,
              handled |-> FALSE, key |-> "", value |-> "", due |-> FALSE, settled |-> FALSE,
              storeCall |-> FALSE, chatWrite |-> FALSE, dmRules |-> 0,
              dmPrompt |-> 0, dmApproval |-> 0, notifs |-> 0, creates |-> 0,
              raised |-> "", failed |-> "", reported |-> FALSE,
              fetched |-> FALSE, cleared |-> FALSE, retrieved |-> FALSE,
              lock |-> 0, hung |-> FALSE]

\* the refresh_cache run: the key being retrieved, the keys its loop has
\* still to visit and the size the iterated collection had, the negative
\* keys found again; seen are the Config keys the store held when the run
\* started, after (ok) the keys the store held when a run started that has
\* since ended (returned normally); rrAfter: refresh_reaction_role_caches
\* has run since the reaction role NewRole was added
IdleJob == [pc |-> "idle", key |-> "", todo |-> {}, size |-> 0, remove |-> {},
            seen |-> {}, after |-> {}, ok |-> {}, runs |-> 0, rrAfter |-> FALSE,
            cleared |-> {}, gathers |-> 0, listing |-> {}, holds |-> {}]

\* ------------------------------------------------ the record store client
\* asyncio.Semaphore(5), a class attribute: one pool for every Storage
SemaphoreValue == 5

Calls == 1 .. MaxCalls

StorageOps == {"_get", "_iterate", "_modify", "_delete"}

\* a call of the client: the await it is at, the permits it holds, the
\* pages the listing still has to fetch
IdleCall == [pc |-> "idle", op |-> "", held |-> 0, pages |-> 0]

\* the HTTP requests to the record store that are in flight
InFlight == { c \in Calls : calls[c].pc = "request" }

\* a call ends: its locals are gone
Return(how) == [IdleCall EXCEPT !.pc = how]

call_storage(c, op) ==
    /\ calls[c].pc = "idle"
    /\ \A b \in Calls : b < c => calls[b].pc # "idle"
    /\ calls' = [calls EXCEPT ![c] = [pc |-> IF op = "_iterate" THEN "iterate_acquire"
                                             ELSE "acquire",
                                      op |-> op, held |-> 0, pages |-> 0]]
    /\ UNCHANGED <<semaphore, handlerVars>>

\* async with self.semaphore, with no permit to wait for
semaphore_acquire_unguarded(c) ==
    /\ calls[c].pc \in {"iterate_acquire", "acquire"}
    /\ semaphore' = IF semaphore > 0 THEN semaphore - 1 ELSE 0
    /\ calls' = [calls EXCEPT ![c].held = @ + 1,
                              ![c].pc = IF @ = "iterate_acquire" THEN "acquire"
                                        ELSE "request"]
    /\ UNCHANGED handlerVars

\* async with self.semaphore: _iterate takes a permit and calls _get, which
\* takes one of its own; with a permit _get, _modify and _delete send the
\* request
semaphore_acquire(c) ==
    /\ calls[c].pc \in {"iterate_acquire", "acquire"}
    /\ semaphore > 0
    /\ semaphore' = semaphore - 1
    /\ calls' = [calls EXCEPT ![c].held = @ + 1,
                              ![c].pc = IF @ = "iterate_acquire" THEN "acquire"
                                        ELSE "request"]
    /\ UNCHANGED handlerVars

\* the response: status 200, or AirTableError, which leaves every
\* async with block the call is in
run_request(c, status) ==
    /\ calls[c].pc = "request"
    /\ IF status = 200
       THEN /\ calls' = [calls EXCEPT ![c].pc = "sleep"]
            /\ UNCHANGED semaphore
       ELSE /\ calls' = [calls EXCEPT ![c] = Return("raised")]
            /\ semaphore' = semaphore + calls[c].held
    /\ UNCHANGED handlerVars

\* await airtable_sleep() and the end of the async with block
airtable_sleep(c) ==
    /\ calls[c].pc = "sleep"
    /\ semaphore' = semaphore + 1
    /\ calls' = [calls EXCEPT ![c] = IF calls[c].op = "_iterate"
                                     THEN [@ EXCEPT !.held = @ - 1, !.pc = "iterate_sleep"]
                                     ELSE Return("done")]
    /\ UNCHANGED handlerVars

\* _iterate: its own airtable_sleep, the end of its async with block, the
\* records, and the next page if the response had an offset
iterate_sleep(c, offset) ==
    /\ calls[c].pc = "iterate_sleep"
    /\ offset => calls[c].pages + 1 < MaxPages
    /\ semaphore' = semaphore + 1
    /\ calls' = [calls EXCEPT ![c] = IF offset
                                     THEN [@ EXCEPT !.held = @ - 1, !.pages = @ + 1,
                                                    !.pc = "iterate_acquire"]
                                     ELSE Return("done")]
    /\ UNCHANGED handlerVars

\* ------------------------------------------------------- record store calls
\* BetaTestersStorage.find_tester(discord_id=...)
find_tester(discord) ==
    IF \E t \in testers : t.discord = discord
    THEN CHOOSE t \in testers : t.discord = discord
    ELSE NoTester

\* the record upsert_tester returns: Tester.to_airtable leaves out an email
\* and a registration message id that are None, always writes the leave
\* message ids, and the store merges on "Discord ID"
upsert_tester(t) ==
    IF \E s \in testers : s.discord = t.discord
    THEN LET s == CHOOSE s \in testers : s.discord = t.discord
         IN [s EXCEPT !.email = IF t.email # "" THEN t.email ELSE @,
                      !.regMsg = IF t.regMsg # 0 THEN t.regMsg ELSE @,
                      !.leave = t.leave]
    ELSE [t EXCEPT !.id = nextRec]

\* the table were the record inserted, merged on nothing
TestersAfterInsert(t) ==
    testers \cup {[t EXCEPT !.id = nextRec]}

TestersAfterUpsert(t) ==
    {s \in testers : s.discord # t.discord} \cup {upsert_tester(t)}

NextRecAfterUpsert(t) ==
    IF \E s \in testers : s.discord = t.discord THEN nextRec ELSE nextRec + 1

\* list_requests were the {Tester Discord ID} term of the formula left out
list_requests_any_tester(discord, apps, approvedOnly, exclude_removed) ==
    { r \in requests : /\ r.app \in apps
                       /\ (approvedOnly => r.approved)
                       /\ (exclude_removed => ~r.removed) }

\* BetaTestersStorage.list_requests; no record of the pipeline carries a
\* Status, so {Status}=BLANK() makes the UNAPPROVED filter pass every record
\* and the APPROVED filter is {Approved}=TRUE()
list_requests(discord, apps, approvedOnly, exclude_removed) ==
    { r \in requests : /\ r.discord = discord
                       /\ r.app \in apps
                       /\ (approvedOnly => r.approved)
                       /\ (exclude_removed => ~r.removed) }

\* existing_testing_requests[-1] under sort=["Created"]
MostRecent(rs) == CHOOSE r \in rs : \A q \in rs : q.id <= r.id

\* update_request were every field of the copy written
update_request_whole(r) ==
    { IF q.id = r.id
      THEN [q EXCEPT !.approved = r.approved,
                     !.notif = IF r.notif # 0 THEN r.notif ELSE @,
                     !.further = IF r.further # <<>> THEN r.further ELSE @,
                     !.removed = IF r.removed THEN TRUE ELSE @]
      ELSE q : q \in requests }

\* BetaTestersStorage.update_request: TestingRequest.to_airtable writes
\* Approved only when _approved is set, the message ids only when they
\* are set, Removed only when true; the store keeps every other field
update_request(r) ==
    { IF q.id = r.id
      THEN [q EXCEPT !.approved = IF r.approved THEN TRUE ELSE @,
                     !.notif = IF r.notif # 0 THEN r.notif ELSE @,
                     !.further = IF r.further # <<>> THEN r.further ELSE @,
                     !.removed = IF r.removed THEN TRUE ELSE @]
      ELSE q : q \in requests }

SeqToSet(s) == { s[i] : i \in 1..Len(s) }

\* BetaTestersStorage.fetch_request: by the primary id, else by a further id
fetch_request(m) ==
    IF \E r \in requests : r.notif = m
    THEN CHOOSE r \in requests : r.notif = m
    ELSE IF \E r \in requests : m \in SeqToSet(r.further)
         THEN CHOOSE r \in requests : m \in SeqToSet(r.further)
         ELSE NoRequest

\* ------------------------------------------------------ configuration reads
\* ConfigStorage.get_config followed by retrieve_config on a miss
get_config(key) ==
    IF key \in negCache THEN ""
    ELSE IF cfgCache[key] # "?" THEN cfgCache[key]
    ELSE cfgStore[key]

\* does that get_config reach the record store
GetConfigFetches(key) == key \notin negCache /\ cfgCache[key] = "?"

\* the value one of the TTL-cached getters of ReactionRoles returns
CachedConfig(key) == IF ttl[key] # "?" THEN ttl[key] ELSE get_config(key)

CachedConfigFetches(key) == ttl[key] = "?" /\ GetConfigFetches(key)

\* the caches after get_config(key)
ConfigCachesAfter(key) ==
    /\ cfgCache' = IF GetConfigFetches(key) /\ cfgStore[key] # ""
                   THEN [cfgCache EXCEPT ![key] = cfgStore[key]] ELSE cfgCache
    /\ negCache' = IF GetConfigFetches(key) /\ cfgStore[key] = ""
                   THEN negCache \cup {key} ELSE negCache

\* the caches after a TTL-cached getter
CachedConfigAfter(key) ==
    IF ttl[key] # "?"
    THEN UNCHANGED <<cfgCache, negCache, ttl>>
    ELSE /\ ConfigCachesAfter(key)
         /\ ttl' = [ttl EXCEPT ![key] = get_config(key)]

\* ------------------------------------------------------------ chat platform
GuildRoles == {"rA1", "rA2", "rPlain", "rRules"}

\* the channel a message is in
ChannelOf(m) ==
    IF m \in 1..Len(sent) THEN sent[m].chan
    ELSE IF m \in {Msg.leave, Msg.foreign} THEN "chDef"
    ELSE "chGen"

\* message.author.id == self.user.id
OwnMessage(m) == m \in 1..Len(sent) \/ m = Msg.leave

Send(kind, chan, to, req) ==
    sent' = Append(sent, [kind |-> kind, chan |-> chan, to |-> to,
                          req |-> req, at |-> now])

\* ------------------------------------------------- TLDBotto.on_raw_reaction_add
Set(e, rec) == ev' = [ev EXCEPT ![e] = rec]

FreeSlot(e) ==
    /\ ev[e].pc \in {"idle", "done", "raised"}
    /\ \A f \in Events : f < e => ev[f].pc \notin {"idle", "done", "raised"}

\* a reaction-added gateway event reaches the client; reactions of the bot
\* itself are dropped before any handler runs
Deliver(e, entry, user, msg, emoji) ==
    /\ FreeSlot(e)
    /\ user # Bot
    /\ started' = started + 1
    /\ Set(e, [IdleEvent EXCEPT !.pc = "handle_role_reaction", !.entry = entry,
                                !.user = user, !.msg = msg, !.emoji = emoji])
    /\ UNCHANGED <<httpVars, storeVars, cacheVars, lockVars, chatVars, betaGroups,
                   pendingMarks, now, forms, job>>

\* --------------------------------------------- ReactionRoles.handle_role_reaction
\* the same check were the watched set listed from the store every time
handle_role_reaction_uncached(e) ==
    LET p == ev[e]
        ids == { r.msg : r \in rrStore }
    IN /\ p.pc = "handle_role_reaction"
       /\ watched' = ids
       /\ Set(e, [p EXCEPT !.storeCall = TRUE,
                           !.pc = IF p.msg \in ids THEN "get_reaction_role"
                                  ELSE "handle_role_approval"])
       /\ UNCHANGED <<httpVars, storeVars, rrCache, approvalsChannelIds, cfgCache, negCache,
                      ttl, lockVars, chatVars, betaGroups, pendingMarks, now,
                      forms, started, job>>

\* the watched-message check; an empty watched set is listed from the store
handle_role_reaction(e) ==
    LET p == ev[e]
        listed == watched = {}
        ids == IF listed THEN { r.msg : r \in rrStore } ELSE watched
    IN /\ p.pc = "handle_role_reaction"
       /\ watched' = ids
       /\ Set(e, [p EXCEPT !.storeCall = @ \/ listed,
                           !.pc = IF p.msg \in ids THEN "get_reaction_role"
                                  ELSE "handle_role_approval"])
       /\ UNCHANGED <<httpVars, storeVars, rrCache, approvalsChannelIds, cfgCache, negCache,
                      ttl, lockVars, chatVars, betaGroups, pendingMarks, now,
                      forms, started, job>>

\* BetaTestersStorage.get_reaction_role with _fetch_reaction on a miss
get_reaction_role(e) ==
    LET p == ev[e]
        hit == \E r \in rrCache : r.msg = p.msg /\ r.emoji = p.emoji
        inStore == \E r \in rrStore : r.msg = p.msg /\ r.emoji = p.emoji
        role == IF hit THEN CHOOSE r \in rrCache : r.msg = p.msg /\ r.emoji = p.emoji
                ELSE IF inStore
                     THEN CHOOSE r \in rrStore : r.msg = p.msg /\ r.emoji = p.emoji
                     ELSE NoRole
    IN /\ p.pc = "get_reaction_role"
       /\ rrCache' = IF ~hit /\ inStore THEN rrCache \cup {role} ELSE rrCache
       /\ watched' = IF ~hit /\ inStore THEN watched \cup {p.msg} ELSE watched
       /\ Set(e, [p EXCEPT !.rr = role, !.storeCall = @ \/ ~hit,
                           !.pc = IF role = NoRole THEN "handle_role_approval"
                                  ELSE "rules_check"])
       /\ UNCHANGED <<httpVars, storeVars, approvalsChannelIds, cfgCache, negCache, ttl,
                      lockVars, chatVars, betaGroups, pendingMarks, now, forms,
                      started, job>>

\* the same step were the rule-agreement role never asked for
rules_check_open(e) ==
    LET p == ev[e]
    IN /\ p.pc = "rules_check"
       /\ Set(e, [p EXCEPT !.pc = "role_or_lock"])
       /\ UNCHANGED <<httpVars, storeVars, cacheVars, lockVars, chatVars, betaGroups,
                      pendingMarks, now, forms, started, job>>

\* requires_rules_approval and the guild's rule_agreement_role
rules_check(e) ==
    LET p == ev[e]
        role_id == CachedConfig("rule_agreement_role")
    IN /\ p.pc = "rules_check"
       /\ IF p.rr.rules
          THEN /\ CachedConfigAfter("rule_agreement_role")
               /\ Set(e, [p EXCEPT
                     !.storeCall = @ \/ CachedConfigFetches("rule_agreement_role"),
                     !.pc = IF role_id # "" /\ role_id \notin memberRoles[p.user]
                            THEN "rules_message" ELSE "role_or_lock"])
          ELSE /\ Set(e, [p EXCEPT !.pc = "role_or_lock"])
               /\ UNCHANGED <<cfgCache, negCache, ttl>>
       /\ UNCHANGED <<httpVars, storeVars, watched, rrCache, approvalsChannelIds, lockVars,
                      chatVars, betaGroups, pendingMarks, now, forms, started,
                      job>>

\* the member lacks the rule-agreement role: get_rule_agreement_message, then
\* the DM, unless the rules message names a channel the guild does not have
rules_message(e) ==
    LET p == ev[e]
        channel_id == get_config("rule_agreement_message")
        missing == channel_id # "" /\ channel_id \notin GuildChannels
    IN /\ p.pc = "rules_message"
       /\ ConfigCachesAfter("rule_agreement_message")
       /\ IF missing
          THEN /\ UNCHANGED sent
               /\ Set(e, [p EXCEPT
                     !.storeCall = @ \/ GetConfigFetches("rule_agreement_message"),
                     !.pc = "handle_role_approval"])
          ELSE /\ Send("rules", "dm", p.user, 0)
               /\ Set(e, [p EXCEPT
                     !.storeCall = @ \/ GetConfigFetches("rule_agreement_message"),
                     !.chatWrite = TRUE, !.dmRules = @ + 1,
                     !.pc = "handle_role_approval"])
       /\ UNCHANGED <<httpVars, storeVars, watched, rrCache, approvalsChannelIds, ttl,
                      lockVars, botReactions, memberRoles, betaGroups,
                      pendingMarks, now, forms, started, job>>

\* the same step were add_roles called whatever roles the member has
plain_role_always(e) ==
    LET p == ev[e]
        grant == p.rr.role \in GuildRoles
    IN /\ p.pc = "role_or_lock"
       /\ p.rr.apps = <<>>
       /\ memberRoles' = IF grant
                         THEN [memberRoles EXCEPT ![p.user] = @ \cup {p.rr.role}]
                         ELSE memberRoles
       /\ Set(e, [p EXCEPT !.chatWrite = @ \/ grant, !.pc = "handle_role_approval"])
       /\ UNCHANGED <<httpVars, storeVars, cacheVars, lockVars, sent, botReactions,
                      betaGroups, pendingMarks, now, forms, started, job>>

\* a mapping without apps grants its role at once
plain_role(e) ==
    LET p == ev[e]
        grant == p.rr.role \in GuildRoles /\ p.rr.role \notin memberRoles[p.user]
    IN /\ p.pc = "role_or_lock"
       /\ p.rr.apps = <<>>
       /\ memberRoles' = IF grant
                         THEN [memberRoles EXCEPT ![p.user] = @ \cup {p.rr.role}]
                         ELSE memberRoles
       /\ Set(e, [p EXCEPT !.chatWrite = @ \/ grant, !.pc = "handle_role_approval"])
       /\ UNCHANGED <<httpVars, storeVars, cacheVars, lockVars, sent, botReactions,
                      betaGroups, pendingMarks, now, forms, started, job>>

\* the same step were the lock not there
acquire_tester_lock_absent(e) ==
    LET p == ev[e]
    IN /\ p.pc = "role_or_lock"
       /\ p.rr.apps # <<>>
       /\ testerLocks' = [testerLocks EXCEPT ![p.user] = e]
       /\ Set(e, [p EXCEPT !.locked = TRUE, !.pc = "find_tester"])
       /\ UNCHANGED <<httpVars, storeVars, cacheVars, cfgLock, negLock, chatVars,
                      betaGroups, pendingMarks, now, forms, started, job>>

\* async with self.tester_locks.setdefault(str(payload.user_id), Lock())
acquire_tester_lock(e) ==
    LET p == ev[e]
    IN /\ p.pc = "role_or_lock"
       /\ p.rr.apps # <<>>
       /\ testerLocks[p.user] = 0
       /\ testerLocks' = [testerLocks EXCEPT ![p.user] = e]
       /\ Set(e, [p EXCEPT !.locked = TRUE, !.pc = "find_tester"])
       /\ UNCHANGED <<httpVars, storeVars, cacheVars, cfgLock, negLock, chatVars,
                      betaGroups, pendingMarks, now, forms, started, job>>

\* tester = find_tester(...), or a new Tester for a user never seen
find_or_new_tester(e) ==
    LET p == ev[e]
        found == find_tester(p.user)
    IN /\ p.pc = "find_tester"
       /\ Set(e, [p EXCEPT !.storeCall = TRUE,
                           !.tester = IF found = NoTester
                                      THEN [NoTester EXCEPT !.discord = p.user]
                                      ELSE found,
                           !.pc = "upsert_tester"])
       /\ UNCHANGED <<httpVars, storeVars, cacheVars, lockVars, chatVars, betaGroups,
                      pendingMarks, now, forms, started, job>>

\* tester = await upsert_tester(tester)
store_tester(e) ==
    LET p == ev[e]
    IN /\ p.pc = "upsert_tester"
       /\ testers' = TestersAfterUpsert(p.tester)
       /\ nextRec' = NextRecAfterUpsert(p.tester)
       /\ Set(e, [p EXCEPT !.tester = upsert_tester(p.tester),
                           !.pc = "list_requests"])
       /\ UNCHANGED <<httpVars, requests, rrStore, cfgStore, cacheVars, lockVars, chatVars,
                      betaGroups, pendingMarks, now, forms, started, job>>

\* the active requests of the tester for any app of the mapping
existing_testing_requests(e) ==
    LET p == ev[e]
        found == list_requests(p.tester.discord, SeqToSet(p.rr.apps), FALSE, TRUE)
    IN /\ p.pc = "list_requests"
       /\ Set(e, [p EXCEPT !.existing = found,
                           !.pc = IF found = {} THEN "add_request"
                                  ELSE "registration"])
       /\ UNCHANGED <<httpVars, storeVars, cacheVars, lockVars, chatVars, betaGroups,
                      pendingMarks, now, forms, started, job>>

\* none exists: add_request for the first app of the mapping
add_request(e) ==
    LET p == ev[e]
        new == [NoRequest EXCEPT !.id = nextRec, !.tester = p.tester.id,
                                 !.discord = p.tester.discord,
                                 !.app = p.rr.apps[1]]
    IN /\ p.pc = "add_request"
       /\ requests' = requests \cup {new}
       /\ nextRec' = nextRec + 1
       /\ Set(e, [p EXCEPT !.req = new, !.pc = "registration"])
       /\ UNCHANGED <<httpVars, testers, rrStore, cfgStore, cacheVars, lockVars, chatVars,
                      betaGroups, pendingMarks, now, forms, started, job>>

\* the same step were the email never looked at
registration_check_skipped(e) ==
    LET p == ev[e]
    IN /\ p.pc = "registration"
       /\ testerLocks' = [testerLocks EXCEPT ![p.user] = 0]
       /\ Set(e, [p EXCEPT
             !.req = IF p.existing = {} THEN p.req ELSE MostRecent(p.existing),
             !.repeat = p.existing # {},
             !.pc = "notify"])
       /\ UNCHANGED <<httpVars, storeVars, cacheVars, cfgLock, negLock, chatVars,
                      betaGroups, pendingMarks, now, forms, started, job>>

\* the same step were the age of the last prompt never looked at
registration_check_ageless(e) ==
    LET p == ev[e]
    IN /\ p.pc = "registration"
       /\ IF p.tester.email = ""
          THEN /\ UNCHANGED testerLocks
               /\ Set(e, [p EXCEPT !.pc = "send_registration"])
          ELSE /\ testerLocks' = [testerLocks EXCEPT ![p.user] = 0]
               /\ Set(e, [p EXCEPT
                     !.req = IF p.existing = {} THEN p.req
                             ELSE MostRecent(p.existing),
                     !.repeat = p.existing # {},
                     !.pc = "notify"])
       /\ UNCHANGED <<httpVars, storeVars, cacheVars, cfgLock, negLock, chatVars,
                      betaGroups, pendingMarks, now, forms, started, job>>

\* if not tester.email: skip a prompt sent less than the window ago, else go
\* on to prompt; with an email the lock is left and the request is notified
registration_check(e) ==
    LET p == ev[e]
        recent == /\ p.tester.regMsg # 0
                  /\ sent[p.tester.regMsg].at > now - RegistrationWindow
    IN /\ p.pc = "registration"
       /\ IF p.tester.email = ""
          THEN IF recent
               THEN /\ testerLocks' = [testerLocks EXCEPT ![p.user] = 0]
                    /\ Set(e, [p EXCEPT !.pc = "handle_role_approval"])
               ELSE /\ UNCHANGED testerLocks
                    /\ Set(e, [p EXCEPT !.pc = "send_registration"])
          ELSE /\ testerLocks' = [testerLocks EXCEPT ![p.user] = 0]
               /\ Set(e, [p EXCEPT
                     !.req = IF p.existing = {} THEN p.req
                             ELSE MostRecent(p.existing),
                     !.repeat = p.existing # {},
                     !.pc = "notify"])
       /\ UNCHANGED <<httpVars, storeVars, cacheVars, cfgLock, negLock, chatVars,
                      betaGroups, pendingMarks, now, forms, started, job>>

\* send_registration_message, record its id on the tester, leave the lock
send_registration_message(e) ==
    LET p == ev[e]
        prompted == [p.tester EXCEPT !.regMsg = Len(sent) + 1]
    IN /\ p.pc = "send_registration"
       /\ Send("registration", "dm", p.user, 0)
       /\ testers' = TestersAfterUpsert(prompted)
       /\ nextRec' = NextRecAfterUpsert(prompted)
       /\ testerLocks' = [testerLocks EXCEPT ![p.user] = 0]
       /\ Set(e, [p EXCEPT !.tester = prompted, !.chatWrite = TRUE,
                           !.storeCall = TRUE, !.dmPrompt = @ + 1,
                           !.pc = "handle_role_approval"])
       /\ UNCHANGED <<httpVars, requests, rrStore, cfgStore, cacheVars, cfgLock, negLock,
                      botReactions, memberRoles, betaGroups, pendingMarks, now,
                      forms, started, job>>

\* ReactionRoles.send_request_notification_message up to the send: the app's
\* approval channel, else the guild's default one, else nothing is sent
send_request_notification_message(e) ==
    LET p == ev[e]
        own == Apps[p.req.app].channel
        channel == IF own # "" THEN own
                   ELSE CachedConfig("default_approvals_channel")
        fetched == own = "" /\ CachedConfigFetches("default_approvals_channel")
        id == Len(sent) + 1
    IN /\ p.pc = "notify"
       /\ IF own # "" THEN UNCHANGED <<cfgCache, negCache, ttl>>
          ELSE CachedConfigAfter("default_approvals_channel")
       /\ IF channel \in GuildChannels
          THEN /\ Send("notification", channel, p.req.discord, p.req.id)
               /\ Set(e, [p EXCEPT
                     !.req = IF p.repeat THEN [p.req EXCEPT !.further = Append(@, id)]
                             ELSE [p.req EXCEPT !.notif = id],
                     !.storeCall = @ \/ fetched, !.chatWrite = TRUE,
                     !.notifs = @ + 1, !.pc = "update_request"])
          ELSE /\ UNCHANGED sent
               /\ Set(e, [p EXCEPT !.storeCall = @ \/ fetched,
                                   !.pc = "handle_role_approval"])
       /\ UNCHANGED <<httpVars, storeVars, watched, rrCache, approvalsChannelIds, lockVars,
                      botReactions, memberRoles, betaGroups, pendingMarks, now,
                      forms, started, job>>

\* ... and its update_request(request)
store_notification(e) ==
    LET p == ev[e]
    IN /\ p.pc = "update_request"
       /\ requests' = update_request(p.req)
       /\ Set(e, [p EXCEPT !.storeCall = TRUE, !.pc = "handle_role_approval"])
       /\ UNCHANGED <<httpVars, testers, rrStore, cfgStore, nextRec, cacheVars, lockVars,
                      chatVars, betaGroups, pendingMarks, now, forms, started,
                      job>>

\* --------------------------------------------- ReactionRoles.handle_role_approval
\* the coroutine is over: its locals are gone, what it did stays on record
End(p, pc) ==
    [p EXCEPT !.pc = pc, !.tester = NoTester, !.existing = {}, !.repeat = FALSE,
              !.groups = {},
              !.req = [NoRequest EXCEPT !.id = p.req.id, !.app = p.req.app]]

\* where a reaction event goes once handle_role_approval is over
AfterApproval(p) ==
    IF p.entry = "handle_reaction"
    THEN [p EXCEPT !.pc = "handle_removal_reaction"]
    ELSE End(p, "done")

\* is_approval_channel, then is_own_message
InApprovalsCache(m) == ChannelOf(m) \in approvalsChannelIds

is_approval_channel(m) ==
    \/ InApprovalsCache(m)
    \/ ChannelOf(m) = CachedConfig("default_approvals_channel")

\* the same step were the author of the message not looked at
handle_role_approval_any_author(e) ==
    LET p == ev[e]
        fetched == /\ ~InApprovalsCache(p.msg)
                   /\ CachedConfigFetches("default_approvals_channel")
    IN /\ p.pc = "handle_role_approval"
       /\ IF InApprovalsCache(p.msg) THEN UNCHANGED <<cfgCache, negCache, ttl>>
          ELSE CachedConfigAfter("default_approvals_channel")
       /\ Set(e, IF is_approval_channel(p.msg)
                 THEN [p EXCEPT !.storeCall = @ \/ fetched, !.pc = "approval_emojis"]
                 ELSE AfterApproval([p EXCEPT !.storeCall = @ \/ fetched]))
       /\ UNCHANGED <<httpVars, storeVars, watched, rrCache, approvalsChannelIds, lockVars,
                      chatVars, betaGroups, pendingMarks, now, forms, started,
                      job>>

handle_role_approval(e) ==
    LET p == ev[e]
        fetched == /\ ~InApprovalsCache(p.msg)
                   /\ CachedConfigFetches("default_approvals_channel")
    IN /\ p.pc = "handle_role_approval"
       /\ IF InApprovalsCache(p.msg) THEN UNCHANGED <<cfgCache, negCache, ttl>>
          ELSE CachedConfigAfter("default_approvals_channel")
       /\ Set(e, IF is_approval_channel(p.msg) /\ OwnMessage(p.msg)
                 THEN [p EXCEPT !.storeCall = @ \/ fetched, !.pc = "approval_emojis"]
                 ELSE AfterApproval([p EXCEPT !.storeCall = @ \/ fetched]))
       /\ UNCHANGED <<httpVars, storeVars, watched, rrCache, approvalsChannelIds, lockVars,
                      chatVars, betaGroups, pendingMarks, now, forms, started,
                      job>>

\* an exception leaves the handler; handle_reaction still runs its finally
Raise(p, error) ==
    IF p.entry = "handle_reaction"
    THEN [p EXCEPT !.raised = error, !.pc = "finally"]
    ELSE End([p EXCEPT !.raised = error], "raised")

\* get_approval_emojis and the emoji gate
approval_emojis(e) ==
    LET p == ev[e]
        emojis == {get_config("approval_emojis")} \ {""}
        fetched == GetConfigFetches("approval_emojis")
    IN /\ p.pc = "approval_emojis"
       /\ ConfigCachesAfter("approval_emojis")
       /\ Set(e, IF p.emoji \in emojis
                 THEN [p EXCEPT !.storeCall = @ \/ fetched, !.pc = "fetch_request"]
                 ELSE AfterApproval([p EXCEPT !.storeCall = @ \/ fetched]))
       /\ UNCHANGED <<httpVars, storeVars, watched, rrCache, approvalsChannelIds, ttl,
                      lockVars, chatVars, betaGroups, pendingMarks, now, forms,
                      started, job>>

\* testing_request = fetch_request(payload.message_id); none: a message in
\* the channel says so
approval_fetch_request(e) ==
    LET p == ev[e]
        found == fetch_request(p.msg)
    IN /\ p.pc = "fetch_request"
       /\ IF found = NoRequest
          THEN /\ Send("diagnostic", ChannelOf(p.msg), p.user, 0)
               /\ Set(e, AfterApproval([p EXCEPT !.storeCall = TRUE, !.fetched = TRUE,
                                                 !.chatWrite = TRUE]))
          ELSE /\ UNCHANGED sent
               /\ Set(e, [p EXCEPT !.storeCall = TRUE, !.fetched = TRUE, !.req = found,
                                   !.prev = found.approved, !.pc = "fetch_tester"])
       /\ UNCHANGED <<httpVars, storeVars, cacheVars, lockVars, botReactions, memberRoles,
                      betaGroups, pendingMarks, now, forms, started, job>>

\* fetch_tester, fetch_app, testing_request.approved = True
approval_fetch_tester(e) ==
    LET p == ev[e]
        found == CHOOSE t \in testers : t.id = p.req.tester
    IN /\ p.pc = "fetch_tester"
       /\ \E t \in testers : t.id = p.req.tester
       /\ p.req.app \in DOMAIN Apps
       /\ Set(e, [p EXCEPT !.storeCall = TRUE, !.tester = found,
                           !.req = [p.req EXCEPT !.approved = TRUE],
                           !.pc = "find_beta_tester"])
       /\ UNCHANGED <<httpVars, storeVars, cacheVars, lockVars, chatVars, betaGroups,
                      pendingMarks, now, forms, started, job>>

\* add_tester_to_group: find_beta_tester(tester.email, app)
find_beta_tester(e) ==
    LET p == ev[e]
        groups_for_testers == { m[2] : m \in { b \in betaGroups : b[1] = p.tester.email } }
    IN /\ p.pc = "find_beta_tester"
       /\ Apps[p.req.app].key # ""
       /\ Set(e, [p EXCEPT !.groups = groups_for_testers,
                           !.pc = IF Apps[p.req.app].group \in groups_for_testers
                                  THEN "add_roles" ELSE "create_beta_tester"])
       /\ UNCHANGED <<httpVars, storeVars, cacheVars, lockVars, chatVars, betaGroups,
                      pendingMarks, now, forms, started, job>>

\* add_tester_to_group: create_beta_tester(app, tester.email, ...)
create_beta_tester(e) ==
    LET p == ev[e]
    IN /\ p.pc = "create_beta_tester"
       /\ Apps[p.req.app].group # ""
       /\ betaGroups' = betaGroups \cup {<<p.tester.email, Apps[p.req.app].group>>}
       /\ Set(e, [p EXCEPT !.creates = @ + 1, !.pc = "add_roles"])
       /\ UNCHANGED <<httpVars, storeVars, cacheVars, lockVars, chatVars, pendingMarks,
                      now, forms, started, job>>

\* the roles of the app's reaction roles are granted unless all are held
add_roles(e) ==
    LET p == ev[e]
        roles == Apps[p.req.app].roles
        grant == ~(roles \subseteq memberRoles[p.req.discord])
    IN /\ p.pc = "add_roles"
       /\ memberRoles' = IF grant
                         THEN [memberRoles EXCEPT ![p.req.discord] = @ \cup roles]
                         ELSE memberRoles
       /\ Set(e, [p EXCEPT !.chatWrite = @ \/ grant,
                           !.pc = IF p.prev THEN "approve_update"
                                  ELSE "approval_dm"])
       /\ UNCHANGED <<httpVars, storeVars, cacheVars, lockVars, sent, botReactions,
                      betaGroups, pendingMarks, now, forms, started, job>>

\* if not is_previously_approved_testing_request: send_approval_notification
send_approval_notification(e) ==
    LET p == ev[e]
    IN /\ p.pc = "approval_dm"
       /\ Send("approved", "dm", p.req.discord, p.req.id)
       /\ Set(e, [p EXCEPT !.chatWrite = TRUE, !.dmApproval = @ + 1,
                           !.pc = "approve_update"])
       /\ UNCHANGED <<httpVars, storeVars, cacheVars, lockVars, botReactions, memberRoles,
                      betaGroups, pendingMarks, now, forms, started, job>>

\* the same step were the approval never written to the store
approval_update_request_dropped(e) ==
    LET p == ev[e]
    IN /\ p.pc = "approve_update"
       /\ Set(e, [p EXCEPT !.storeCall = TRUE, !.pc = "mark_approved"])
       /\ UNCHANGED <<httpVars, storeVars, cacheVars, lockVars, chatVars, betaGroups,
                      pendingMarks, now, forms, started, job>>

\* update_request(testing_request) with approved set
approval_update_request(e) ==
    LET p == ev[e]
    IN /\ p.pc = "approve_update"
       /\ requests' = update_request(p.req)
       /\ Set(e, [p EXCEPT !.storeCall = TRUE, !.pc = "mark_approved"])
       /\ UNCHANGED <<httpVars, testers, rrStore, cfgStore, nextRec, cacheVars, lockVars,
                      chatVars, betaGroups, pendingMarks, now, forms, started,
                      job>>

\* message.add_reaction("white_check_mark") on the message reacted to
mark_approved(e) ==
    LET p == ev[e]
    IN /\ p.pc = "mark_approved"
       /\ botReactions' = botReactions \cup {<<p.msg, "white_check_mark">>}
       /\ Set(e, [p EXCEPT !.chatWrite = TRUE, !.pc = "mark_others"])
       /\ UNCHANGED <<httpVars, storeVars, cacheVars, lockVars, sent, memberRoles,
                      betaGroups, pendingMarks, now, forms, started, job>>

\* the same step were the message reacted to not left out
mark_others_all(e) ==
    LET p == ev[e]
        other_messages == SeqToSet(p.req.further) \cup {p.req.notif}
    IN /\ p.pc = "mark_others"
       /\ pendingMarks' = pendingMarks \cup other_messages
       /\ Set(e, AfterApproval([p EXCEPT !.marks = other_messages,
                                         !.completed = TRUE]))
       /\ UNCHANGED <<httpVars, storeVars, cacheVars, lockVars, chatVars, betaGroups, now,
                      forms, started, job>>

\* the other notifications of the request: the further ids but the one
\* reacted to, and the primary id if it is another; int(None) raises for a
\* request without a primary id.  mark_request_messages_handled returns the
\* asyncio.gather of the add_reaction calls without awaiting it
mark_others(e) ==
    LET p == ev[e]
        other_messages == (SeqToSet(p.req.further) \ {p.msg})
                              \cup ({p.req.notif} \ {p.msg})
    IN /\ p.pc = "mark_others"
       /\ IF p.req.notif = 0
          THEN /\ Set(e, Raise(p, "TypeError"))
               /\ UNCHANGED pendingMarks
          ELSE /\ pendingMarks' = pendingMarks \cup other_messages
               /\ Set(e, AfterApproval([p EXCEPT !.marks = other_messages,
                                                 !.completed = TRUE]))
       /\ UNCHANGED <<httpVars, storeVars, cacheVars, lockVars, chatVars, betaGroups, now,
                      forms, started, job>>

\* one of the gathered m.add_reaction("heavy_check_mark") calls runs
add_handled_reaction ==
    \E m \in pendingMarks :
        /\ pendingMarks' = pendingMarks \ {m}
        /\ botReactions' = botReactions \cup {<<m, "heavy_check_mark">>}
        /\ UNCHANGED <<httpVars, storeVars, cacheVars, lockVars, sent, memberRoles,
                       betaGroups, now, forms, started, ev, job>>

\* handle_removal_reaction up to the processing mark: is_approval_channel,
\* is_own_message, message.add_reaction(processing_emoji)
handle_removal_reaction(e) ==
    LET p == ev[e]
        fetched == /\ ~InApprovalsCache(p.msg)
                   /\ CachedConfigFetches("default_approvals_channel")
        passes == is_approval_channel(p.msg) /\ OwnMessage(p.msg)
    IN /\ p.pc = "handle_removal_reaction"
       /\ IF InApprovalsCache(p.msg) THEN UNCHANGED <<cfgCache, negCache, ttl>>
          ELSE CachedConfigAfter("default_approvals_channel")
       /\ botReactions' = IF passes THEN botReactions \cup {<<p.msg, "hourglass">>}
                          ELSE botReactions
       /\ Set(e, [p EXCEPT !.storeCall = @ \/ fetched, !.chatWrite = @ \/ passes,
                           !.pc = IF passes THEN "removal_emojis" ELSE "finally"])
       /\ UNCHANGED <<httpVars, storeVars, watched, rrCache, approvalsChannelIds, lockVars,
                      sent, memberRoles, betaGroups, pendingMarks, now, forms,
                      started, job>>

\* get_removal_emojis and the emoji gate
removal_emojis(e) ==
    LET p == ev[e]
        emojis == {get_config("removal_emojis")} \ {""}
        fetched == GetConfigFetches("removal_emojis")
    IN /\ p.pc = "removal_emojis"
       /\ ConfigCachesAfter("removal_emojis")
       /\ Set(e, [p EXCEPT !.storeCall = @ \/ fetched,
                           !.pc = IF p.emoji \in emojis
                                  THEN "find_tester_by_leave_message"
                                  ELSE "finally"])
       /\ UNCHANGED <<httpVars, storeVars, watched, rrCache, approvalsChannelIds, ttl,
                      lockVars, chatVars, betaGroups, pendingMarks, now, forms,
                      started, job>>

\* tester = find_tester_by_leave_message(payload.message_id); none: a message
\* in the channel says so
find_tester_by_leave_message(e) ==
    LET p == ev[e]
        found == { t \in testers : p.msg \in t.leave }
    IN /\ p.pc = "find_tester_by_leave_message"
       /\ IF found = {}
          THEN /\ Send("diagnostic", ChannelOf(p.msg), p.user, 0)
               /\ Set(e, [p EXCEPT !.storeCall = TRUE, !.chatWrite = TRUE,
                                   !.pc = "finally"])
          ELSE /\ UNCHANGED sent
               /\ Set(e, [p EXCEPT !.storeCall = TRUE,
                                   !.tester = CHOOSE t \in found : TRUE,
                                   !.pc = "remove_tester_from_group"])
       /\ UNCHANGED <<httpVars, storeVars, cacheVars, lockVars, botReactions, memberRoles,
                      betaGroups, pendingMarks, now, forms, started, job>>

\* remove_tester_from_group(payload, tester), app left at its default None:
\* find_beta_tester(tester.email, None) asks every configured API key (one
\* here, so at most one beta tester record); with none found a message is
\* sent; with one found, app.beta_group_id is read of None and the
\* AttributeError leaves the function before delete_beta_tester,
\* list_requests and update_requests
remove_tester_from_group(e) ==
    LET p == ev[e]
        groups_for_testers == { m[2] : m \in { b \in betaGroups : b[1] = p.tester.email } }
    IN /\ p.pc = "remove_tester_from_group"
       /\ IF groups_for_testers = {}
          THEN /\ Send("diagnostic", ChannelOf(p.msg), p.user, 0)
               /\ Set(e, [p EXCEPT !.chatWrite = TRUE, !.handled = TRUE,
                                   !.pc = "finally"])
          ELSE /\ UNCHANGED sent
               /\ Set(e, [p EXCEPT !.groups = groups_for_testers,
                                   !.raised = "AttributeError", !.pc = "finally"])
       /\ UNCHANGED <<httpVars, storeVars, cacheVars, lockVars, botReactions, memberRoles,
                      betaGroups, pendingMarks, now, forms, started, job>>

\* handle_reaction's finally: message.remove_reaction(processing_emoji); the
\* beta groups found stay on record for the run
handle_reaction_finally(e) ==
    LET p == ev[e]
    IN /\ p.pc = "finally"
       /\ botReactions' = botReactions \ {<<p.msg, "hourglass">>}
       /\ Set(e, [End(p, IF p.raised = "" THEN "done" ELSE "raised")
                     EXCEPT !.groups = p.groups])
       /\ UNCHANGED <<httpVars, storeVars, cacheVars, lockVars, sent, memberRoles,
                      betaGroups, pendingMarks, now, forms, started, job>>

\* ------------------------------------------------- ConfigStorage, in steps
\* asyncio.Lock: a free lock with no waiter is taken without yielding; a
\* release hands the lock to the first waiter.  The refresh job queues as 0.
Cached == { k \in ConfigKeys : cfgCache[k] # "?" }

Returned(p, v) == [p EXCEPT !.pc = "done", !.value = v]

\* a caller awaits get_config(guild, key)
call_get_config(e, key) ==
    /\ FreeSlot(e)
    /\ started' = started + 1
    /\ Set(e, [IdleEvent EXCEPT !.pc = "get_config", !.entry = "get_config",
                                !.key = key, !.due = key \in job.after,
                                !.settled = key \in job.ok])
    /\ UNCHANGED <<httpVars, storeVars, cacheVars, lockVars, chatVars, betaGroups,
                   pendingMarks, now, forms, job>>

\* the guild's dict is popped from config_cache under config_lock
ServerCacheCleared(e, p) ==
    /\ cfgCache' = [k \in ConfigKeys |-> "?"]
    /\ job' = [job EXCEPT !.cleared = ConfigKeys]
    /\ Set(e, Returned(p, ""))

\* the cache clear commands await clear_server_cache(guild)
clear_server_cache(e) ==
    /\ FreeSlot(e)
    /\ started' = started + 1
    /\ IF cfgLock = <<>>
       THEN /\ ServerCacheCleared(e, [IdleEvent EXCEPT !.entry = "clear_server_cache"])
            /\ UNCHANGED cfgLock
       ELSE /\ cfgLock' = Append(cfgLock, e)
            /\ Set(e, [IdleEvent EXCEPT !.pc = "clear_server_cache_locked",
                                        !.entry = "clear_server_cache"])
            /\ UNCHANGED <<cfgCache, job>>
    /\ UNCHANGED <<httpVars, storeVars, watched, rrCache, approvalsChannelIds, negCache,
                   ttl, negLock, testerLocks, chatVars, betaGroups, pendingMarks,
                   now, forms>>

clear_server_cache_locked(e) ==
    /\ ev[e].pc = "clear_server_cache_locked"
    /\ cfgLock # <<>> /\ Head(cfgLock) = e
    /\ cfgLock' = Tail(cfgLock)
    /\ ServerCacheCleared(e, ev[e])
    /\ UNCHANGED <<httpVars, storeVars, watched, rrCache, approvalsChannelIds, negCache,
                   ttl, negLock, testerLocks, chatVars, betaGroups, pendingMarks,
                   now, forms, started>>

\* get_config with config_lock in hand: a hit is returned; on a miss the
\* lock is released and retrieve_config asks for it again
ConfigCacheChecked(e, p, released) ==
    IF cfgCache[p.key] # "?"
       THEN /\ cfgLock' = released
            /\ Set(e, Returned(p, cfgCache[p.key]))
       ELSE IF released = <<>>
       THEN /\ cfgLock' = <<e>>
            /\ Set(e, [p EXCEPT !.pc = "retrieve_config"])
       ELSE /\ cfgLock' = Append(released, e)
            /\ Set(e, [p EXCEPT !.pc = "retrieve_config_locked"])

\* get_config without its first test: the negative cache is not looked at
get_config_check_unbelieved(e) ==
    LET p == [ev[e] EXCEPT !.cleared = ev[e].key \in job.cleared]
    IN /\ p.pc = "get_config"
       /\ job' = [job EXCEPT !.cleared = @ \ {p.key}]
       /\ IF cfgLock = <<>>
          THEN ConfigCacheChecked(e, p, <<>>)
          ELSE /\ cfgLock' = Append(cfgLock, e)
               /\ Set(e, [p EXCEPT !.pc = "get_config_locked"])
       /\ UNCHANGED <<httpVars, storeVars, cacheVars, negLock, testerLocks, chatVars,
                      betaGroups, pendingMarks, now, forms, started>>

\* get_config: the negative cache is believed while its lock is free.
\* job.cleared holds the keys no call has looked up since clear_server_cache
\* dropped the guild's entry
get_config_check(e) ==
    LET p == [ev[e] EXCEPT !.cleared = ev[e].key \in job.cleared]
    IN /\ p.pc = "get_config"
       /\ job' = [job EXCEPT !.cleared = @ \ {p.key}]
       /\ IF negLock = <<>> /\ p.key \in negCache
          THEN /\ Set(e, Returned(p, ""))
               /\ UNCHANGED cfgLock
          ELSE IF cfgLock = <<>>
          THEN ConfigCacheChecked(e, p, <<>>)
          ELSE /\ cfgLock' = Append(cfgLock, e)
               /\ Set(e, [p EXCEPT !.pc = "get_config_locked"])
       /\ UNCHANGED <<httpVars, storeVars, cacheVars, negLock, testerLocks, chatVars,
                      betaGroups, pendingMarks, now, forms, started>>

get_config_locked(e) ==
    /\ ev[e].pc = "get_config_locked"
    /\ cfgLock # <<>> /\ Head(cfgLock) = e
    /\ ConfigCacheChecked(e, ev[e], Tail(cfgLock))
    /\ UNCHANGED <<httpVars, storeVars, cacheVars, negLock, testerLocks, chatVars,
                   betaGroups, pendingMarks, now, forms, started, job>>

retrieve_config_locked(e) ==
    /\ ev[e].pc = "retrieve_config_locked"
    /\ cfgLock # <<>> /\ Head(cfgLock) = e
    /\ Set(e, [ev[e] EXCEPT !.pc = "retrieve_config"])
    /\ UNCHANGED <<httpVars, storeVars, cacheVars, lockVars, chatVars, betaGroups,
                   pendingMarks, now, forms, started, job>>

\* retrieve_config under config_lock: the entry read from the store goes
\* into the cache; none read is a KeyError, and the key goes into the
\* negative cache under its lock
retrieve_config(e) ==
    LET p == [ev[e] EXCEPT !.retrieved = TRUE]
        found == cfgStore[p.key]
    IN /\ p.pc = "retrieve_config"
       /\ ~p.hung
       /\ cfgLock' = Tail(cfgLock)
       /\ job' = [job EXCEPT !.cleared = @ \ {p.key}]
       /\ IF found # ""
          THEN /\ cfgCache' = [cfgCache EXCEPT ![p.key] = found]
               /\ Set(e, Returned(p, found))
               /\ UNCHANGED <<negCache, negLock>>
          ELSE IF negLock = <<>>
          THEN /\ negCache' = negCache \cup {p.key}
               /\ Set(e, Returned(p, ""))
               /\ UNCHANGED <<cfgCache, negLock>>
          ELSE /\ negLock' = Append(negLock, e)
               /\ Set(e, [p EXCEPT !.pc = "negative_cache"])
               /\ UNCHANGED <<cfgCache, negCache>>
       /\ UNCHANGED <<httpVars, storeVars, watched, rrCache, approvalsChannelIds, ttl,
                      testerLocks, chatVars, betaGroups, pendingMarks, now,
                      forms, started>>

negative_cache_add(e) ==
    LET p == ev[e]
    IN /\ p.pc = "negative_cache"
       /\ negLock # <<>> /\ Head(negLock) = e
       /\ negLock' = Tail(negLock)
       /\ negCache' = negCache \cup {p.key}
       /\ Set(e, Returned(p, ""))
       /\ UNCHANGED <<httpVars, storeVars, watched, rrCache, approvalsChannelIds, cfgCache,
                      ttl, cfgLock, testerLocks, chatVars, betaGroups,
                      pendingMarks, now, forms, started>>
       /\ UNCHANGED job

\* the run is over: by return or by an exception
Ended(j, how) ==
    [j EXCEPT !.pc = how, !.key = "", !.todo = {}, !.size = 0, !.remove = {},
              !.seen = {}, !.after = @ \cup j.seen,
              !.ok = IF how = "done" THEN @ \cup j.seen ELSE @]

\* refresh_cache at `for key in keys`: a set that has changed size since the
\* loop began is a RuntimeError; at the end of the set the keys found again
\* leave the negative cache and the run returns; otherwise the negative
\* lock is taken and retrieve_config asks for config_lock
NegativeLoopNext(j, cl, nl) ==
    IF Cardinality(negCache) # j.size
    THEN /\ job' = Ended(j, "raised")
         /\ cfgLock' = cl /\ negLock' = nl /\ negCache' = negCache
    ELSE IF j.todo = {}
    THEN /\ job' = Ended(j, "done")
         /\ cfgLock' = cl /\ negLock' = nl
         /\ negCache' = negCache \ j.remove
    ELSE \E k \in j.todo :
           LET j2 == [j EXCEPT !.key = k, !.todo = @ \ {k}]
           IN /\ negCache' = negCache
              /\ IF nl # <<>>
                 THEN /\ negLock' = Append(nl, 0)
                      /\ cfgLock' = cl
                      /\ job' = [j2 EXCEPT !.pc = "negative_lock"]
                 ELSE /\ negLock' = <<0>>
                      /\ IF cl = <<>>
                         THEN /\ cfgLock' = <<0>>
                              /\ job' = [j2 EXCEPT !.pc = "negative_retrieve"]
                         ELSE /\ cfgLock' = Append(cl, 0)
                              /\ job' = [j2 EXCEPT !.pc = "negative_config_lock"]

\* refresh_cache at `for entry in entries.values()`: a dict that has changed
\* size since the loop began is a RuntimeError; at the end of the dict the
\* loop over the negative cache begins; otherwise retrieve_config asks for
\* config_lock.  cached is the cache as it will be after this step
EntriesLoopNext(j, cl, cached) ==
    IF Cardinality(cached) # j.size
    THEN /\ job' = Ended(j, "raised")
         /\ cfgLock' = cl
         /\ UNCHANGED <<negLock, negCache>>
    ELSE IF j.todo = {}
    THEN NegativeLoopNext([j EXCEPT !.key = "", !.todo = negCache,
                                    !.size = Cardinality(negCache)],
                          cl, negLock)
    ELSE \E k \in j.todo :
           LET j2 == [j EXCEPT !.key = k, !.todo = @ \ {k}]
           IN /\ UNCHANGED <<negLock, negCache>>
              /\ IF cl = <<>>
                 THEN /\ cfgLock' = <<0>>
                      /\ job' = [j2 EXCEPT !.pc = "entries_retrieve"]
                 ELSE /\ cfgLock' = Append(cl, 0)
                      /\ job' = [j2 EXCEPT !.pc = "entries_config_lock"]

\* the scheduler starts refresh_cache: config_lock is taken to read
\* self.config_cache and released
refresh_cache ==
    LET j == [job EXCEPT !.runs = @ + 1,
                         !.seen = { k \in ConfigKeys : cfgStore[k] # "" },
                         !.todo = Cached, !.size = Cardinality(Cached)]
    IN /\ job.pc \in {"idle", "done", "raised"}
       /\ job.runs < MaxRuns
       /\ IF cfgLock = <<>>
          THEN EntriesLoopNext(j, <<>>, Cached)
          ELSE /\ cfgLock' = Append(cfgLock, 0)
               /\ job' = [j EXCEPT !.pc = "config_lock"]
               /\ UNCHANGED <<negLock, negCache>>
       /\ UNCHANGED <<httpVars, storeVars, watched, rrCache, approvalsChannelIds, cfgCache,
                      ttl, testerLocks, chatVars, betaGroups, pendingMarks, now,
                      forms, started, ev>>

refresh_cache_locked ==
    /\ job.pc = "config_lock"
    /\ cfgLock # <<>> /\ Head(cfgLock) = 0
    /\ EntriesLoopNext([job EXCEPT !.todo = Cached, !.size = Cardinality(Cached)],
                       Tail(cfgLock), Cached)
    /\ UNCHANGED <<httpVars, storeVars, watched, rrCache, approvalsChannelIds, cfgCache,
                   ttl, testerLocks, chatVars, betaGroups, pendingMarks, now,
                   forms, started, ev>>

refresh_entries_locked ==
    /\ job.pc = "entries_config_lock"
    /\ cfgLock # <<>> /\ Head(cfgLock) = 0
    /\ job' = [job EXCEPT !.pc = "entries_retrieve"]
    /\ UNCHANGED <<httpVars, storeVars, cacheVars, lockVars, chatVars, betaGroups,
                   pendingMarks, now, forms, started, ev>>

\* retrieve_config of a cached entry, then the loop goes on: the entry read
\* replaces the cached one; with none read server_config[key] is the cached
\* one still, and it is returned
refresh_entries_retrieve ==
    /\ job.pc = "entries_retrieve"
    /\ cfgCache' = IF cfgStore[job.key] # ""
                   THEN [cfgCache EXCEPT ![job.key] = cfgStore[job.key]]
                   ELSE cfgCache
    /\ EntriesLoopNext(job, Tail(cfgLock), Cached)
    /\ UNCHANGED <<httpVars, storeVars, watched, rrCache, approvalsChannelIds, ttl,
                   testerLocks, chatVars, betaGroups, pendingMarks, now, forms,
                   started, ev>>

refresh_negative_locked ==
    /\ job.pc = "negative_lock"
    /\ negLock # <<>> /\ Head(negLock) = 0
    /\ IF cfgLock = <<>>
       THEN /\ cfgLock' = <<0>>
            /\ job' = [job EXCEPT !.pc = "negative_retrieve"]
       ELSE /\ cfgLock' = Append(cfgLock, 0)
            /\ job' = [job EXCEPT !.pc = "negative_config_lock"]
    /\ UNCHANGED <<httpVars, storeVars, cacheVars, negLock, testerLocks, chatVars,
                   betaGroups, pendingMarks, now, forms, started, ev>>

refresh_negative_config_locked ==
    /\ job.pc = "negative_config_lock"
    /\ cfgLock # <<>> /\ Head(cfgLock) = 0
    /\ job' = [job EXCEPT !.pc = "negative_retrieve"]
    /\ UNCHANGED <<httpVars, storeVars, cacheVars, lockVars, chatVars, betaGroups,
                   pendingMarks, now, forms, started, ev>>

\* retrieve_config of a negative key, the negative lock held: found, the key
\* is noted for removal and the loop goes on; not found, retrieve_config
\* waits for the negative lock its own task holds
refresh_negative_retrieve ==
    /\ job.pc = "negative_retrieve"
    /\ IF cfgStore[job.key] # ""
       THEN /\ cfgCache' = [cfgCache EXCEPT ![job.key] = cfgStore[job.key]]
            /\ NegativeLoopNext([job EXCEPT !.remove = @ \cup {job.key}],
                                Tail(cfgLock), Tail(negLock))
       ELSE /\ cfgLock' = Tail(cfgLock)
            /\ negLock' = Append(negLock, 0)
            /\ job' = [job EXCEPT !.pc = "deadlock"]
            /\ UNCHANGED <<cfgCache, negCache>>
    /\ UNCHANGED <<httpVars, storeVars, watched, rrCache, approvalsChannelIds, ttl,
                   testerLocks, chatVars, betaGroups, pendingMarks, now, forms,
                   started, ev>>

\* ------------------------------------------------------------ what can fail
\* the awaits of the handlers that are a call of the record store
StorePcs == {"find_tester", "upsert_tester", "list_requests", "add_request",
             "update_request", "fetch_request", "fetch_tester", "approve_update"}

\* AirTableError leaves handle_role_reaction or handle_role_approval: the
\* except clause of handle_reaction reports it in the channel, the caller
\* on_raw_reaction_add has none
RaiseAirTableError(p) ==
    IF p.entry = "handle_reaction"
    THEN [p EXCEPT !.failed = "AirTableError", !.reported = TRUE, !.chatWrite = TRUE,
                   !.locked = FALSE, !.pc = "finally"]
    ELSE End([p EXCEPT !.failed = "AirTableError", !.raised = "AirTableError",
                       !.locked = FALSE], "raised")

Propagate(e, p) ==
    /\ testerLocks' = IF p.locked THEN [testerLocks EXCEPT ![p.user] = 0]
                      ELSE testerLocks
    /\ IF p.entry = "handle_reaction"
       THEN Send("error", ChannelOf(p.msg), p.user, 0)
       ELSE UNCHANGED sent
    /\ Set(e, RaiseAirTableError(p))

\* the record store answers a call with a status other than 200; only the
\* update_request of the approval has a handler of its own, which reports
\* the error and goes on
airtable_error(e) ==
    LET p == ev[e]
    IN /\ p.pc \in StorePcs
       /\ IF p.pc = "approve_update"
          THEN /\ Send("error", ChannelOf(p.msg), p.user, p.req.id)
               /\ Set(e, [p EXCEPT !.failed = "AirTableError", !.reported = TRUE,
                                   !.chatWrite = TRUE, !.pc = "mark_approved"])
               /\ UNCHANGED testerLocks
          ELSE Propagate(e, p)
       /\ UNCHANGED <<httpVars, storeVars, cacheVars, cfgLock, negLock, botReactions,
                      memberRoles, betaGroups, pendingMarks, now, forms, started, job>>

\* fetch_tester or fetch_app of a record the store does not hold: _get
\* raises AirTableError on the 404, neither returns None
approval_fetch_missing(e) ==
    LET p == ev[e]
    IN /\ p.pc = "fetch_tester"
       /\ \/ ~\E t \in testers : t.id = p.req.tester
          \/ p.req.app \notin DOMAIN Apps
       /\ Propagate(e, p)
       /\ UNCHANGED <<httpVars, storeVars, cacheVars, cfgLock, negLock, botReactions,
                      memberRoles, betaGroups, pendingMarks, now, forms, started, job>>

\* App.from_airtable reads fields["App Store Key ID"] and
\* fields["Beta Group ID"]: KeyError when the store leaves the empty field
\* out of the record (approval_fetch_tester is the case of a field present
\* and empty)
fetch_app_field_missing(e) ==
    LET p == ev[e]
    IN /\ p.pc = "fetch_tester"
       /\ \E t \in testers : t.id = p.req.tester
       /\ p.req.app \in DOMAIN Apps
       /\ Apps[p.req.app].key = "" \/ Apps[p.req.app].group = ""
       /\ Set(e, Raise([p EXCEPT !.storeCall = TRUE, !.failed = "KeyError"], "KeyError"))
       /\ UNCHANGED <<httpVars, storeVars, cacheVars, lockVars, chatVars, betaGroups,
                      pendingMarks, now, forms, started, job>>

\* find_beta_tester for an app without a key id: make_auth_header(None),
\* create_token raises ConfigError, which is no AppStoreConnectError
find_beta_tester_config_error(e) ==
    LET p == ev[e]
    IN /\ p.pc = "find_beta_tester"
       /\ Apps[p.req.app].key = ""
       /\ Set(e, Raise([p EXCEPT !.failed = "ConfigError"], "ConfigError"))
       /\ UNCHANGED <<httpVars, storeVars, cacheVars, lockVars, chatVars, betaGroups,
                      pendingMarks, now, forms, started, job>>

\* create_beta_tester for an app without a beta group id: BetaGroupNotSetError,
\* reported by add_tester_to_group, which then returns
create_beta_tester_group_not_set(e) ==
    LET p == ev[e]
    IN /\ p.pc = "create_beta_tester"
       /\ Apps[p.req.app].group = ""
       /\ Send("error", ChannelOf(p.msg), p.user, p.req.id)
       /\ Set(e, [p EXCEPT !.failed = "BetaGroupNotSetError", !.reported = TRUE,
                           !.chatWrite = TRUE, !.pc = "add_roles"])
       /\ UNCHANGED <<httpVars, storeVars, cacheVars, lockVars, botReactions, memberRoles,
                      betaGroups, pendingMarks, now, forms, started, job>>

\* the same failure were it swallowed in add_tester_to_group
create_beta_tester_invalid_swallowed(e) ==
    LET p == ev[e]
    IN /\ p.pc = "create_beta_tester"
       /\ Apps[p.req.app].group # ""
       /\ Send("error", ChannelOf(p.msg), p.user, p.req.id)
       /\ Set(e, [p EXCEPT !.failed = "InvalidAttributeError", !.reported = TRUE,
                           !.chatWrite = TRUE, !.pc = "add_roles"])
       /\ UNCHANGED <<httpVars, storeVars, cacheVars, lockVars, botReactions, memberRoles,
                      betaGroups, pendingMarks, now, forms, started, job>>

\* App Store Connect rejects an attribute of the tester:
\* InvalidAttributeError, reported with its details by add_tester_to_group
\* and raised again; handle_role_approval catches it, logs and returns
create_beta_tester_invalid(e) ==
    LET p == ev[e]
    IN /\ p.pc = "create_beta_tester"
       /\ Apps[p.req.app].group # ""
       /\ Send("error", ChannelOf(p.msg), p.user, p.req.id)
       /\ Set(e, AfterApproval([p EXCEPT !.failed = "InvalidAttributeError",
                                         !.reported = TRUE, !.chatWrite = TRUE]))
       /\ UNCHANGED <<httpVars, storeVars, cacheVars, lockVars, botReactions, memberRoles,
                      betaGroups, pendingMarks, now, forms, started, job>>

\* the same failure were it reported and the run carried on
add_roles_failed_carried_on(e) ==
    LET p == ev[e]
    IN /\ p.pc = "add_roles"
       /\ ~(Apps[p.req.app].roles \subseteq memberRoles[p.req.discord])
       /\ Send("error", ChannelOf(p.msg), p.user, p.req.id)
       /\ Set(e, [p EXCEPT !.failed = "DiscordException", !.reported = TRUE,
                           !.chatWrite = TRUE,
                           !.pc = IF p.prev THEN "approve_update" ELSE "approval_dm"])
       /\ UNCHANGED <<httpVars, storeVars, cacheVars, lockVars, botReactions, memberRoles,
                      betaGroups, pendingMarks, now, forms, started, job>>

\* tester_user.add_roles fails: reported in the channel and raised again
add_roles_failed(e) ==
    LET p == ev[e]
    IN /\ p.pc = "add_roles"
       /\ ~(Apps[p.req.app].roles \subseteq memberRoles[p.req.discord])
       /\ Send("error", ChannelOf(p.msg), p.user, p.req.id)
       /\ Set(e, Raise([p EXCEPT !.failed = "DiscordException", !.reported = TRUE,
                                 !.chatWrite = TRUE], "DiscordException"))
       /\ UNCHANGED <<httpVars, storeVars, cacheVars, lockVars, botReactions, memberRoles,
                      betaGroups, pendingMarks, now, forms, started, job>>

\* ------------------------------------------------------------ the environment
\* time passes
Tick ==
    /\ now < MaxTime
    /\ now' = now + 1
    /\ UNCHANGED <<httpVars, storeVars, cacheVars, lockVars, chatVars, betaGroups,
                   pendingMarks, forms, started, ev, job>>

\* TTLCache(20, 600): what the cached getters hold lapses after ten minutes
ttl_expiry ==
    /\ ttl' = [k \in TtlKeys |-> "?"]
    /\ UNCHANGED <<httpVars, storeVars, watched, rrCache, approvalsChannelIds, cfgCache,
                   negCache, lockVars, chatVars, betaGroups, pendingMarks, now,
                   forms, started, ev, job>>

\* the scheduled job refresh_reaction_role_caches: list_watched_message_ids
\* and list_approvals_channel_ids replace the two sets
list_watched_and_approvals_channel_ids ==
    /\ watched' = { r.msg : r \in rrStore }
    /\ approvalsChannelIds' = { Apps[a].channel : a \in AppIds } \ {""}

refresh_reaction_role_caches ==
    /\ list_watched_and_approvals_channel_ids
    /\ UNCHANGED <<httpVars, storeVars, rrCache, cfgCache, negCache, ttl, lockVars,
                   chatVars, betaGroups, pendingMarks, now, forms, started, ev,
                   job>>

\* TestFlightForm.on_submit with a valid address: the tester is stored with
\* the email, every request of the user that passes the UNAPPROVED filter is
\* notified as a first request
RECURSIVE NotifyAll(_, _, _, _)
NotifyAll(rs, msgs, reqs, channel_default) ==
    IF rs = {} THEN [sent |-> msgs, requests |-> reqs]
    ELSE LET r == CHOOSE q \in rs : \A o \in rs : q.id <= o.id
             channel == IF Apps[r.app].channel # "" THEN Apps[r.app].channel
                        ELSE channel_default
         IN IF channel \in GuildChannels
            THEN NotifyAll(rs \ {r},
                   Append(msgs, [kind |-> "notification", chan |-> channel,
                                 to |-> r.discord, req |-> r.id, at |-> now]),
                   { IF q.id = r.id THEN [q EXCEPT !.notif = Len(msgs) + 1] ELSE q
                     : q \in reqs },
                   channel_default)
            ELSE NotifyAll(rs \ {r}, msgs, reqs, channel_default)

on_submit(user) ==
    LET updated == [NoTester EXCEPT !.discord = user, !.email = user]
        mine == list_requests(user, AppIds, FALSE, FALSE)
        needs_default == \E r \in mine : Apps[r.app].channel = ""
        out == NotifyAll(mine, sent, requests,
                         CachedConfig("default_approvals_channel"))
    IN /\ forms < MaxForms
       /\ forms' = forms + 1
       /\ testers' = TestersAfterUpsert(updated)
       /\ nextRec' = NextRecAfterUpsert(updated)
       /\ IF needs_default THEN CachedConfigAfter("default_approvals_channel")
          ELSE UNCHANGED <<cfgCache, negCache, ttl>>
       /\ sent' = out.sent
       /\ requests' = out.requests
       /\ UNCHANGED <<httpVars, rrStore, cfgStore, watched, rrCache, approvalsChannelIds,
                      lockVars, botReactions, memberRoles, betaGroups,
                      pendingMarks, now, started, ev, job>>

\* ------------------------------------------------------------- initial states
Users == {"u1", "mod"}

\* the state after construction: nothing cached, no lock held, nothing sent
Constructed ==
    /\ watched = {}
    /\ rrCache = {}
    /\ approvalsChannelIds = {}
    /\ cfgCache = [k \in ConfigKeys |-> "?"]
    /\ negCache = {}
    /\ ttl = [k \in TtlKeys |-> "?"]
    /\ cfgLock = <<>>
    /\ negLock = <<>>
    /\ testerLocks = [u \in Users |-> 0]
    /\ sent = <<>>
    /\ botReactions = {}
    /\ pendingMarks = {}
    /\ now = 0
    /\ forms = 0
    /\ started = 0
    /\ ev = [e \in Events |-> IdleEvent]
    /\ job = IdleJob
    /\ semaphore = SemaphoreValue
    /\ calls = [c \in Calls |-> IdleCall]

\* the Config table of a guild, whatever its moderators have put in it
GuildConfigs ==
    { [default_approvals_channel |-> d, rule_agreement_role |-> r,
       rule_agreement_message |-> m, approval_emojis |-> "approve",
       removal_emojis |-> "remove"] :
      d \in {"chDef", ""}, r \in {"rRules", ""}, m \in {"chRules", "chGone", ""} }

\* onboarding: an empty Testers and Testing Requests table, the reaction
\* roles in place, approval channels configured
InitOnboard ==
    /\ Constructed
    /\ testers = {}
    /\ requests = {}
    /\ rrStore = AllReactionRoles
    /\ cfgStore \in { c \in GuildConfigs : /\ c.default_approvals_channel = "chDef"
                                          /\ c.rule_agreement_role = "rRules"
                                          /\ c.rule_agreement_message = "chRules" }
    /\ nextRec = 1
    /\ memberRoles = [u \in Users |-> {}]
    /\ betaGroups = {}

OnboardPayloads == { <<"u1", m, "join">> : m \in {Msg.gated, Msg.multi, Msg.second} }

NextOnboard ==
    \/ \E e \in Events :
        \/ \E pl \in OnboardPayloads :
              started < MaxEvents /\ Deliver(e, "on_raw_reaction_add", pl[1], pl[2], pl[3])
        \/ handle_role_reaction(e)
        \/ get_reaction_role(e)
        \/ rules_check(e)
        \/ acquire_tester_lock(e)
        \/ find_or_new_tester(e)
        \/ store_tester(e)
        \/ existing_testing_requests(e)
        \/ add_request(e)
        \/ registration_check(e)
        \/ send_registration_message(e)
        \/ send_request_notification_message(e)
        \/ store_notification(e)
        \/ handle_role_approval(e)
    \/ on_submit("u1")

SpecOnboard == InitOnboard /\ [][NextOnboard]_vars

\* the active requests of a user for an app
ActiveRequests(user, apps) ==
    { r \in requests : r.discord = user /\ r.app \in apps /\ ~r.removed }

\* a reaction handler that went through the locked section and is over
Onboarded(e) == ev[e].pc = "done" /\ ev[e].locked

C3_NoNotificationWithoutEmail ==
    \A i \in 1..Len(sent) :
        sent[i].kind = "notification" => find_tester(sent[i].to).email # ""

\* a tester without an email has reacted and the handler is over: prompted,
\* a request on record, nothing in an approval channel
C3_Witness ==
    \E e \in Events :
        /\ Onboarded(e)
        /\ find_tester(ev[e].user) # NoTester
        /\ find_tester(ev[e].user).email = ""
        /\ ev[e].dmPrompt = 1
        /\ ActiveRequests(ev[e].user, AppIds) # {}
        /\ \A i \in 1..Len(sent) : sent[i].kind # "notification"

\* the registration prompt over time: reactions of a user who never registers
NextPrompt ==
    \/ \E e \in Events :
        \/ started < MaxPrompts /\ Deliver(e, "on_raw_reaction_add", "u1", Msg.gated, "join")
        \/ handle_role_reaction(e)
        \/ get_reaction_role(e)
        \/ rules_check(e)
        \/ acquire_tester_lock(e)
        \/ find_or_new_tester(e)
        \/ store_tester(e)
        \/ existing_testing_requests(e)
        \/ add_request(e)
        \/ registration_check(e)
        \/ send_registration_message(e)
        \/ handle_role_approval(e)
    \/ Tick

SpecPrompt == InitOnboard /\ [][NextPrompt]_vars

\* the registration prompts sent to a user
Prompts(msgs, u) ==
    { i \in 1..Len(msgs) : msgs[i].kind = "registration" /\ msgs[i].to = u }

\* the last prompt on the tester's record is less than the window old
PromptedLately(t) ==
    t.regMsg # 0 /\ now - sent[t.regMsg].at < RegistrationWindow

InitGates ==
    /\ Constructed
    /\ testers = {}
    /\ requests = {}
    /\ rrStore = AllReactionRoles
    /\ cfgStore \in GuildConfigs
    /\ nextRec = 1
    /\ memberRoles \in { [u \in Users |-> IF u = "u1" THEN rs ELSE {}] :
                         rs \in {{}, {"rRules"}} }
    /\ betaGroups = {}

GatesPayloads ==
    { <<"u1", m, "join">> : m \in {Msg.rules, Msg.plain, Msg.other} }
        \cup { <<"u1", Msg.gated, "wave">> }

NextGates ==
    \/ \E e \in Events :
        \/ \E pl \in GatesPayloads :
              started < MaxEvents /\ Deliver(e, "on_raw_reaction_add", pl[1], pl[2], pl[3])
        \/ handle_role_reaction(e)
        \/ get_reaction_role(e)
        \/ rules_check(e)
        \/ rules_message(e)
        \/ plain_role(e)
        \/ acquire_tester_lock(e)
        \/ find_or_new_tester(e)
        \/ store_tester(e)
        \/ existing_testing_requests(e)
        \/ add_request(e)
        \/ registration_check(e)
        \/ send_registration_message(e)
        \/ handle_role_approval(e)
    \/ refresh_reaction_role_caches
    \/ ttl_expiry

SpecGates == InitGates /\ [][NextGates]_vars

\* a reaction on a message that no ReactionRole names and that is in no
\* approval channel
Unrelated(p) ==
    /\ p.pc \notin {"idle", "done"}
    /\ \A r \in rrStore : r.msg # p.msg
    /\ ChannelOf(p.msg) \notin { Apps[a].channel : a \in AppIds }
    /\ ChannelOf(p.msg) # cfgStore["default_approvals_channel"]

\* the guild's default approvals channel is held in none of the caches
DefaultChannelUncached ==
    /\ ttl["default_approvals_channel"] = "?"
    /\ cfgCache["default_approvals_channel"] = "?"
    /\ "default_approvals_channel" \notin negCache

Gated(p) ==
    /\ p.rr.rules
    /\ cfgStore["rule_agreement_role"] # ""
    /\ cfgStore["rule_agreement_role"] \notin memberRoles[p.user]

\* the rules message names a channel the guild does not have
RulesChannelGone ==
    /\ cfgStore["rule_agreement_message"] # ""
    /\ cfgStore["rule_agreement_message"] \notin GuildChannels

\* C9, as stated: whatever the guild has configured, a user without the
\* rule-agreement role who reacts on a rules-gated message gets exactly one
\* DM and the handler never reaches the tester records
C9_AsStated ==
    \A e \in Events :
        ( /\ ev[e].pc = "done"
          /\ ev[e].rr.rules
          /\ cfgStore["rule_agreement_role"] \notin memberRoles[ev[e].user] )
        => ev[e].dmRules = 1 /\ ~ev[e].locked

\* C9, amended: with a rule-agreement role configured, the handler of such a
\* reaction changes no Tester, no TestingRequest and no role, and is over
\* after exactly one DM, or after none when the configured rules message
\* names a channel the guild does not have
C9_RulesGate ==
    [][ \A e \in Events :
          (Gated(ev[e]) /\ ev'[e] # ev[e] /\ ev[e].pc # "done") =>
             /\ UNCHANGED <<testers, requests, memberRoles>>
             /\ ev'[e].pc = "done" =>
                   /\ ev'[e].dmRules = IF RulesChannelGone THEN 0 ELSE 1
                   /\ ev'[e].dmPrompt = 0
                   /\ ~ev'[e].locked ]_vars

\* such a user has reacted, got the one DM, and no tester is on record
C9_Witness ==
    \E e \in Events :
        /\ ev[e].pc = "done"
        /\ Gated(ev[e])
        /\ ev[e].dmRules = 1
        /\ testers = {}
        /\ requests = {}
        /\ memberRoles["u1"] = {}

\* ------------------------------------------------------------------ approval
\* a request of u1 for A1 that has been notified three times (messages 2, 3
\* and 4 in A1's approval channel; 1 is the registration prompt), with 2 on
\* record as the primary notification or with no primary on record
InitApproval ==
    /\ watched = {}
    /\ rrCache = {}
    /\ approvalsChannelIds = {}
    /\ cfgCache = [k \in ConfigKeys |-> "?"]
    /\ negCache = {}
    /\ ttl = [k \in TtlKeys |-> "?"]
    /\ cfgLock = <<>>
    /\ negLock = <<>>
    /\ testerLocks = [u \in Users |-> 0]
    /\ sent = << [kind |-> "registration", chan |-> "dm", to |-> "u1", req |-> 0, at |-> 0],
                 [kind |-> "notification", chan |-> "chA1", to |-> "u1", req |-> 2, at |-> 0],
                 [kind |-> "notification", chan |-> "chA1", to |-> "u1", req |-> 2, at |-> 0],
                 [kind |-> "notification", chan |-> "chA1", to |-> "u1", req |-> 2, at |-> 0] >>
    /\ botReactions = {}
    /\ pendingMarks = {}
    /\ now = 0
    /\ forms = 0
    /\ started = 0
    /\ ev = [e \in Events |-> IdleEvent]
    /\ job = IdleJob
    /\ semaphore = SemaphoreValue
    /\ calls = [c \in Calls |-> IdleCall]
    /\ testers = { [id |-> 1, discord |-> "u1", email |-> "u1", regMsg |-> 1, leave |-> {}] }
    /\ requests \in { { [NoRequest EXCEPT !.id = 2, !.tester = 1, !.discord = "u1",
                                          !.app = "A1", !.notif = n,
                                          !.further = <<3, 4>>] } : n \in {2, 0} }
    /\ rrStore = AllReactionRoles
    /\ cfgStore \in { c \in GuildConfigs : /\ c.default_approvals_channel = "chDef"
                                          /\ c.rule_agreement_role = "rRules"
                                          /\ c.rule_agreement_message = "chRules" }
    /\ nextRec = 3
    /\ memberRoles = [u \in Users |-> {}]
    /\ betaGroups = {}

ApprovalPayloads == { <<"mod", m, "approve">> : m \in {2, 3, 4} }
                        \cup { <<"mod", 3, "wave">> }

NextApproval ==
    \/ \E e \in Events :
        \/ \E pl \in ApprovalPayloads :
              started < MaxEvents /\ Deliver(e, "on_raw_reaction_add", pl[1], pl[2], pl[3])
        \/ handle_role_reaction(e)
        \/ handle_role_approval(e)
        \/ approval_emojis(e)
        \/ approval_fetch_request(e)
        \/ approval_fetch_tester(e)
        \/ find_beta_tester(e)
        \/ create_beta_tester(e)
        \/ add_roles(e)
        \/ send_approval_notification(e)
        \/ approval_update_request(e)
        \/ mark_approved(e)
        \/ mark_others(e)
    \/ add_handled_reaction
    \/ refresh_reaction_role_caches

SpecApproval == InitApproval /\ [][NextApproval]_vars

\* ------------------------------------------------------------ claims C2, C7
ApprovalDMs(r) == { i \in 1..Len(sent) : sent[i].kind = "approved" /\ sent[i].req = r }

Approved(e) == ev[e].pc = "done" /\ ev[e].completed

Marked(emoji) == { b[1] : b \in { c \in botReactions : c[2] = emoji } }

StoredRequest(id) == CHOOSE r \in requests : r.id = id

\* C2: for approval reactions on notifications of the same request, however
\* the handle_role_approval runs interleave, exactly one approval DM is sent
\* in total and at most one run issues create_beta_tester.
C2_AsStated ==
    \A r \in requests :
        /\ Cardinality(ApprovalDMs(r.id)) <= 1
        /\ (\E e \in Events : Approved(e) /\ ev[e].req.id = r.id)
              => Cardinality(ApprovalDMs(r.id)) = 1
        /\ Cardinality({ e \in Events : ev[e].req.id = r.id /\ ev[e].creates > 0 }) <= 1

NotificationIds(r) == ({r.notif} \cup SeqToSet(r.further)) \ {0}

\* C7: a completed approval of a request with a primary notification leaves
\* the completion reaction on the message reacted to and hands exactly the
\* request's other notifications (primary and duplicates, less the message
\* reacted to) to be marked as handled; each of them is marked or about to
\* be, no message outside the request's notifications is ever marked, and
\* once the marking of a single approval has run the marked messages are
\* exactly those others.
C7_HandledMarks ==
    /\ \A m \in Marked("heavy_check_mark") \cup pendingMarks :
          \E r \in requests : m \in NotificationIds(r)
    /\ \A e \in Events :
          Approved(e) =>
             LET r == StoredRequest(ev[e].req.id)
                 others == NotificationIds(r) \ {ev[e].msg}
             IN /\ r.notif # 0
                /\ ev[e].msg \in Marked("white_check_mark")
                /\ ev[e].marks = others
                /\ others \subseteq Marked("heavy_check_mark") \cup pendingMarks
                /\ (pendingMarks = {} /\ Cardinality(Marked("white_check_mark")) = 1)
                      => Marked("heavy_check_mark") = others

\* approval through the duplicate 3 of a request with primary 2 and
\* duplicates 3 and 4 has marked 3 as complete and 2 and 4 as handled
C7_Witness ==
    /\ \E e \in Events : Approved(e) /\ ev[e].msg = 3
    /\ pendingMarks = {}
    /\ Marked("white_check_mark") = {3}
    /\ Marked("heavy_check_mark") = {2, 4}
    /\ \E r \in requests : r.notif = 2 /\ r.further = <<3, 4>> /\ r.approved

\* ------------------------------------------------------------- the pipeline
\* the whole pipeline from an empty store: u1 reacts on the gated message
\* and submits the form, a moderator reacts on the bot's messages
PipelinePayloads ==
    { <<"u1", Msg.gated, "join">> } \cup { <<"mod", m, "approve">> : m \in 1..Len(sent) }

Next ==
    \/ \E e \in Events :
        \/ \E pl \in PipelinePayloads :
              started < MaxPipeline /\ Deliver(e, "on_raw_reaction_add", pl[1], pl[2], pl[3])
        \/ handle_role_reaction(e)
        \/ get_reaction_role(e)
        \/ rules_check(e)
        \/ acquire_tester_lock(e)
        \/ find_or_new_tester(e)
        \/ store_tester(e)
        \/ existing_testing_requests(e)
        \/ add_request(e)
        \/ registration_check(e)
        \/ send_registration_message(e)
        \/ send_request_notification_message(e)
        \/ store_notification(e)
        \/ handle_role_approval(e)
        \/ approval_emojis(e)
        \/ approval_fetch_request(e)
        \/ approval_fetch_tester(e)
        \/ find_beta_tester(e)
        \/ create_beta_tester(e)
        \/ add_roles(e)
        \/ send_approval_notification(e)
        \/ approval_update_request(e)
        \/ mark_approved(e)
        \/ mark_others(e)
    \/ add_handled_reaction
    \/ refresh_reaction_role_caches
    \/ on_submit("u1")

Spec == InitOnboard /\ [][Next]_vars

\* ---------------------------------------------------------------- claim C10
StoredTester(id) == CHOOSE t \in testers : t.id = id

\* C10: from an empty store the pipeline reaches the approved end state, and
\* every approval run that completes leaves the stored request approved,
\* the app's roles granted to the tester, the tester's email in the app's
\* beta group, an approval DM sent for the request and the completion
\* reaction on the notification reacted to; so does a run that ends in the
\* TypeError of a request without a primary notification.
C10_HappyPath ==
    \A e \in Events :
        (Approved(e) \/ ev[e].pc = "raised") =>
             LET r == StoredRequest(ev[e].req.id)
                 t == StoredTester(r.tester)
             IN /\ r.approved
                /\ t.email # ""
                /\ Apps[r.app].roles \subseteq memberRoles[r.discord]
                /\ <<t.email, Apps[r.app].group>> \in betaGroups
                /\ ApprovalDMs(r.id) # {}
                /\ \A i \in ApprovalDMs(r.id) : sent[i].to = r.discord
                /\ ev[e].msg \in Marked("white_check_mark")
                /\ sent[ev[e].msg].kind = "notification"
                /\ sent[ev[e].msg].req = r.id

\* one reaction, the form and one approval: registration DM, notification,
\* approval DM, in this order, and the end state of the happy path
C10_Witness ==
    /\ started = 2
    /\ forms = 1
    /\ \E e \in Events : Approved(e) /\ ev[e].user = "mod"
    /\ Len(sent) = 3
    /\ sent[1].kind = "registration" /\ sent[1].to = "u1"
    /\ sent[2].kind = "notification" /\ sent[2].chan = "chA1"
    /\ sent[3].kind = "approved" /\ sent[3].to = "u1"
    /\ \E t \in testers : t.discord = "u1" /\ t.email # ""
    /\ \E r \in requests : r.discord = "u1" /\ r.app = "A1" /\ r.approved /\ r.notif = 2
    /\ "rA1" \in memberRoles["u1"]
    /\ Marked("white_check_mark") = {2}
    /\ betaGroups # {}

\* ---------------------------------------------------------------- claim C12
\* C12: a step of the pipeline never takes a stored request from approved
\* to unapproved, and the update_request of an approval run leaves the
\* stored request approved, whatever it was before.
C12_ApprovalMonotonic ==
    /\ [][\A r \in requests :
             r.approved => \E q \in requests' : q.id = r.id /\ q.approved]_vars
    /\ [][\A e \in Events :
             (ev[e].pc = "approve_update" /\ ev'[e].pc = "mark_approved")
                 => \E q \in requests' : q.id = ev[e].req.id /\ q.approved]_vars

\* a repeat reaction's handler is about to store its notification id with
\* the copy of the request it read before the approval, the stored request
\* is approved and the approval run that saw it unapproved has completed
C12_Witness ==
    \E e, a \in Events :
        /\ ev[e].pc = "update_request"
        /\ ev[e].repeat
        /\ ~ev[e].req.approved
        /\ StoredRequest(ev[e].req.id).approved
        /\ Approved(a) /\ ~ev[a].prev /\ ev[a].req.id = ev[e].req.id

\* ------------------------------------------------------------------- removal
\* u1 and the moderator are both testers with an approved request for A1;
\* u1 has left the server and the bot has posted the tester-left message
\* Msg.leave; message 1 is the notification of u1's request
ModRequest == [NoRequest EXCEPT !.id = 4, !.tester = 3, !.discord = "mod",
                                !.app = "A1", !.approved = TRUE]

InitRemoval ==
    /\ Constructed
    /\ testers = { [id |-> 1, discord |-> "u1", email |-> "u1", regMsg |-> 0,
                    leave |-> {Msg.leave}],
                   [id |-> 3, discord |-> "mod", email |-> "mod", regMsg |-> 0,
                    leave |-> {}] }
    /\ requests = { [NoRequest EXCEPT !.id = 2, !.tester = 1, !.discord = "u1",
                                      !.app = "A1", !.approved = TRUE,
                                      !.notif = 1],
                    ModRequest }
    /\ rrStore = AllReactionRoles
    /\ cfgStore \in { c \in GuildConfigs : /\ c.default_approvals_channel = "chDef"
                                          /\ c.rule_agreement_role = "rRules"
                                          /\ c.rule_agreement_message = "chRules" }
    /\ nextRec = 5
    /\ memberRoles = [u \in Users |-> {"rA1"}]
    /\ betaGroups \in { {}, {<<"u1", "g1">>, <<"mod", "g1">>},
                        {<<"u1", "g1">>, <<"u1", "g2">>, <<"mod", "g1">>} }

RemovalPayloads ==
    { <<"mod", Msg.leave, "remove">>, <<"mod", Msg.leave, "approve">>,
      <<"mod", Msg.foreign, "remove">>, <<"mod", 1, "remove">> }

NextRemoval ==
    \/ \E e \in Events :
        \/ \E pl \in RemovalPayloads :
              started < MaxEvents /\ Deliver(e, "handle_reaction", pl[1], pl[2], pl[3])
        \/ handle_role_reaction(e)
        \/ handle_role_approval(e)
        \/ approval_emojis(e)
        \/ approval_fetch_request(e)
        \/ handle_removal_reaction(e)
        \/ removal_emojis(e)
        \/ find_tester_by_leave_message(e)
        \/ remove_tester_from_group(e)
        \/ handle_reaction_finally(e)
    \/ refresh_reaction_role_caches

SpecRemoval == InitRemoval /\ [][NextRemoval]_vars

\* ----------------------------------------------------------------- claim C5
RemovalRun(e) ==
    /\ ev[e].entry = "handle_reaction"
    /\ ev[e].pc \in {"done", "raised"}
    /\ ev[e].emoji = "remove"
    /\ ev[e].msg = Msg.leave

\* C5: once a removal reaction on the tester-left message of a tester has
\* been handled, the tester is in no beta group any more, each of the
\* tester's active requests for an app of a group the tester was in is
\* marked removed, and the requests of other testers, the reacting
\* moderator's among them, are as they were.
C5_AsStated ==
    \A e \in Events :
        RemovalRun(e) =>
            /\ \A b \in betaGroups : b[1] # "u1"
            /\ \A r \in requests :
                  (r.discord = "u1" /\ ev[e].groups # {}) => r.removed
            /\ ModRequest \in requests

\* ------------------------------------------------------------ cache refresh
\* a ConfigStorage whose refresh_cache the scheduler runs, and the reaction
\* role caches with their refresh: the bot has been up for a while (the
\* watched messages and approval channels are listed, the default approvals
\* channel is in the TTL cache), the Config cache is cold or holds the three
\* entries of the store; two Config keys and one reaction role are not in
\* the store, and one of the keys stays out of it
AddedValue == [removal_emojis |-> "remove"]

LookupKeys == {"removal_emojis", "rule_agreement_message"}

NewRole == [msg |-> Msg.other, emoji |-> "join", role |-> "rPlain", apps |-> <<>>,
            rules |-> FALSE]

InitCache ==
    /\ testers = {}
    /\ requests = {}
    /\ rrStore = AllReactionRoles
    /\ cfgStore = [k \in ConfigKeys |->
                     IF k \in LookupKeys THEN ""
                     ELSE IF k = "default_approvals_channel" THEN "chDef"
                     ELSE IF k = "rule_agreement_role" THEN "rRules"
                     ELSE "approve"]
    /\ nextRec = 1
    /\ watched = { r.msg : r \in AllReactionRoles }
    /\ rrCache = {}
    /\ approvalsChannelIds = { Apps[a].channel : a \in AppIds } \ {""}
    /\ cfgCache \in { [k \in ConfigKeys |-> "?"],
                      [k \in ConfigKeys |-> IF cfgStore[k] = "" THEN "?" ELSE cfgStore[k]] }
    /\ negCache = {}
    /\ ttl = [k \in TtlKeys |-> IF k = "default_approvals_channel" THEN "chDef" ELSE "?"]
    /\ cfgLock = <<>>
    /\ negLock = <<>>
    /\ testerLocks = [u \in Users |-> 0]
    /\ sent = <<>>
    /\ botReactions = {}
    /\ memberRoles = [u \in Users |-> {}]
    /\ betaGroups = {}
    /\ pendingMarks = {}
    /\ now = 0
    /\ forms = 0
    /\ started = 0
    /\ ev = [e \in Events |-> IdleEvent]
    /\ job = IdleJob
    /\ semaphore = SemaphoreValue
    /\ calls = [c \in Calls |-> IdleCall]

\* an entry is added to the Config table by hand
add_config_entry(key) ==
    /\ cfgStore[key] = ""
    /\ cfgStore' = [cfgStore EXCEPT ![key] = AddedValue[key]]
    /\ UNCHANGED <<httpVars, testers, requests, rrStore, nextRec, cacheVars, lockVars,
                   chatVars, betaGroups, pendingMarks, now, forms, started, ev,
                   job>>

\* a reaction role is added to the Reaction Roles table by hand
add_reaction_role ==
    /\ NewRole \notin rrStore
    /\ rrStore' = rrStore \cup {NewRole}
    /\ UNCHANGED <<httpVars, testers, requests, cfgStore, nextRec, cacheVars, lockVars,
                   chatVars, betaGroups, pendingMarks, now, forms, started, ev,
                   job>>

\* the scheduler runs refresh_reaction_role_caches
scheduled_refresh_reaction_role_caches ==
    /\ list_watched_and_approvals_channel_ids
    /\ job' = [job EXCEPT !.rrAfter = NewRole \in rrStore]
    /\ UNCHANGED <<httpVars, storeVars, rrCache, cfgCache, negCache, ttl, lockVars,
                   chatVars, betaGroups, pendingMarks, now, forms, started, ev>>

NextCache ==
    \/ \E e \in Events :
        \/ \E key \in LookupKeys : started < MaxLookups /\ call_get_config(e, key)
        \/ started < MaxLookups
              /\ Deliver(e, "on_raw_reaction_add", "u1", Msg.other, "join")
        \/ get_config_check(e)
        \/ get_config_locked(e)
        \/ retrieve_config_locked(e)
        \/ retrieve_config(e)
        \/ negative_cache_add(e)
        \/ handle_role_reaction(e)
        \/ get_reaction_role(e)
        \/ rules_check(e)
        \/ plain_role(e)
        \/ handle_role_approval(e)
    \/ refresh_cache
    \/ refresh_cache_locked
    \/ refresh_entries_locked
    \/ refresh_entries_retrieve
    \/ refresh_negative_locked
    \/ refresh_negative_config_locked
    \/ refresh_negative_retrieve
    \/ \E key \in DOMAIN AddedValue : add_config_entry(key)
    \/ add_reaction_role
    \/ scheduled_refresh_reaction_role_caches

SpecCache == InitCache /\ [][NextCache]_vars

\* ----------------------------------------------------------------- claim C6
ConfigSeenAfterRefresh ==
    \A e \in Events :
        (ev[e].entry = "get_config" /\ ev[e].pc = "done" /\ ev[e].due)
            => ev[e].value = cfgStore[ev[e].key] /\ ev[e].value # ""

RoleSeenAfterRefresh ==
    \A e \in Events :
        (job.rrAfter /\ ev[e].msg = Msg.other /\ ev[e].emoji = "join") =>
            /\ (ev[e].pc = "handle_role_reaction" /\ ev'[e].pc # ev[e].pc)
                  => ev'[e].pc = "get_reaction_role"
            /\ (ev[e].pc = "get_reaction_role" /\ ev'[e].pc # ev[e].pc)
                  => ev'[e].rr = NewRole

\* what does hold: once a run that began after the entry was added has
\* returned, get_config returns the entry
ConfigSeenAfterReturnedRefresh ==
    \A e \in Events :
        (ev[e].entry = "get_config" /\ ev[e].pc = "done" /\ ev[e].settled)
            => ev[e].value = cfgStore[ev[e].key] /\ ev[e].value # ""

\* C6: a get_config call made once a refresh_cache run that began after the
\* key's entry was added to the store has ended returns the entry, also for
\* a key recorded as absent before; and once refresh_reaction_role_caches
\* has run after a reaction role was added, a reaction on its message gets
\* to get_reaction_role and is given the new role mapping.
C6_AsStated == []ConfigSeenAfterRefresh /\ [][RoleSeenAfterRefresh]_vars

\* ----------------------------------------------- the record store client
InitStorage ==
    /\ InitOnboard

\* the calls that run side by side: one of any kind, listings included, and
\* one more of each of the others in turn
OpsOf(c) ==
    IF c = 1 THEN StorageOps
    ELSE { <<"_get", "_modify", "_delete">>[(c % 3) + 1] }

NextStorage ==
    \E c \in Calls :
        \/ \E op \in OpsOf(c) : call_storage(c, op)
        \/ semaphore_acquire(c)
        \/ \E status \in {200, 422} : run_request(c, status)
        \/ airtable_sleep(c)
        \/ \E offset \in BOOLEAN : iterate_sleep(c, offset)

SpecStorage == InitStorage /\ [][NextStorage]_vars

\* C11: at most 5 HTTP requests to the record store are in flight at any
\* time, whatever calls of whatever Storage instance run concurrently
C11_RequestCeiling == Cardinality(InFlight) <= SemaphoreValue

\* five requests in flight and a sixth call waiting for a permit
C11_Witness ==
    /\ Cardinality(InFlight) = SemaphoreValue
    /\ \E c \in Calls : calls[c].pc \in {"acquire", "iterate_acquire"}

\* ------------------------------------------------------- approval failures
\* u1 is registered; the requests 2 to 6 are notified in messages 2 to 6:
\* for A1, for A3 (no beta group id), for A4 (no key id), one whose Tester
\* record is gone and one whose App record is gone; message 7 is a
\* notification no request names, message 8 a further notification of
\* request 2.
FaultRequests ==
    { [NoRequest EXCEPT !.id = 2, !.tester = 1, !.discord = "u1", !.app = "A1", !.notif = 2,
                          !.further = <<8>>],
      [NoRequest EXCEPT !.id = 3, !.tester = 1, !.discord = "u1", !.app = "A3", !.notif = 3],
      [NoRequest EXCEPT !.id = 4, !.tester = 1, !.discord = "u1", !.app = "A4", !.notif = 4],
      [NoRequest EXCEPT !.id = 5, !.tester = 9, !.discord = "u1", !.app = "A1", !.notif = 5],
      [NoRequest EXCEPT !.id = 6, !.tester = 1, !.discord = "u1", !.app = "A9", !.notif = 6] }

InitFaults ==
    /\ watched = {}
    /\ rrCache = {}
    /\ approvalsChannelIds = {}
    /\ cfgCache = [k \in ConfigKeys |-> "?"]
    /\ negCache = {}
    /\ ttl = [k \in TtlKeys |-> "?"]
    /\ cfgLock = <<>>
    /\ negLock = <<>>
    /\ testerLocks = [u \in Users |-> 0]
    /\ sent = << [kind |-> "registration", chan |-> "dm", to |-> "u1", req |-> 0, at |-> 0] >>
                \o [m \in 1 .. 5 |-> [kind |-> "notification", chan |-> "chA1",
                                      to |-> "u1", req |-> m + 1, at |-> 0]]
                \o << [kind |-> "notification", chan |-> "chA1", to |-> "u1",
                       req |-> 0, at |-> 0],
                      [kind |-> "notification", chan |-> "chA1", to |-> "u1",
                       req |-> 2, at |-> 0] >>
    /\ botReactions = {}
    /\ pendingMarks = {}
    /\ now = 0
    /\ forms = 0
    /\ started = 0
    /\ ev = [e \in Events |-> IdleEvent]
    /\ job = IdleJob
    /\ semaphore = SemaphoreValue
    /\ calls = [c \in Calls |-> IdleCall]
    /\ testers = { [id |-> 1, discord |-> "u1", email |-> "u1", regMsg |-> 1, leave |-> {}] }
    /\ requests = FaultRequests
    /\ rrStore = AllReactionRoles
    /\ cfgStore \in { c \in GuildConfigs : /\ c.default_approvals_channel = "chDef"
                                          /\ c.rule_agreement_role = "rRules"
                                          /\ c.rule_agreement_message = "chRules" }
    /\ nextRec = 10
    /\ memberRoles = [u \in Users |-> {}]
    /\ betaGroups = {}

FaultPayloads ==
    { <<"mod", m, "approve">> : m \in 2 .. 7 }
        \cup { <<"u1", Msg.gated, "join">>, <<"mod", Msg.second, "join">> }

NextFaults ==
    \/ \E e \in Events :
        \/ \E pl \in FaultPayloads : \E entry \in {"on_raw_reaction_add", "handle_reaction"} :
              started < MaxEvents /\ Deliver(e, entry, pl[1], pl[2], pl[3])
        \/ handle_role_reaction(e)
        \/ get_reaction_role(e)
        \/ rules_check(e)
        \/ acquire_tester_lock(e)
        \/ find_or_new_tester(e)
        \/ store_tester(e)
        \/ existing_testing_requests(e)
        \/ add_request(e)
        \/ registration_check(e)
        \/ send_registration_message(e)
        \/ send_request_notification_message(e)
        \/ store_notification(e)
        \/ handle_role_approval(e)
        \/ approval_emojis(e)
        \/ approval_fetch_request(e)
        \/ approval_fetch_tester(e)
        \/ approval_fetch_missing(e)
        \/ fetch_app_field_missing(e)
        \/ find_beta_tester(e)
        \/ find_beta_tester_config_error(e)
        \/ create_beta_tester(e)
        \/ create_beta_tester_group_not_set(e)
        \/ create_beta_tester_invalid(e)
        \/ add_roles(e)
        \/ add_roles_failed(e)
        \/ send_approval_notification(e)
        \/ approval_update_request(e)
        \/ mark_approved(e)
        \/ mark_others(e)
        \/ airtable_error(e)
        \/ handle_removal_reaction(e)
        \/ removal_emojis(e)
        \/ handle_reaction_finally(e)
    \/ add_handled_reaction
    \/ refresh_reaction_role_caches

SpecFaults == InitFaults /\ [][NextFaults]_vars

\* ---------------------------------------------------------------- claim C13
\* the failures of an app without a key id or without a beta group id
ConfigFailures == {"KeyError", "ConfigError", "BetaGroupNotSetError"}

EndedRun(e) == ev[e].pc \in {"done", "raised"}

\* C13: an approval run that hits a beta-distribution configuration error
\* (no key id, no beta group id) posts a message in the approval channel
\* and stops: no role granted, no approval DM, the stored request not
\* approved, no completion reaction on the notification.
C13_AsStated ==
    \A e \in Events :
        (EndedRun(e) /\ ev[e].failed \in ConfigFailures) =>
            /\ ev[e].reported
            /\ ev[e].dmApproval = 0
            /\ ApprovalDMs(ev[e].req.id) = {}
            /\ ~StoredRequest(ev[e].req.id).approved
            /\ Apps[ev[e].req.app].roles \cap memberRoles["u1"] = {}
            /\ ev[e].msg \notin Marked("white_check_mark")

\* ---------------------------------------------------------------- claim C14
\* the error reports of a run: in the channel of the message reacted to
ErrorReports(e) ==
    { i \in 1 .. Len(sent) : /\ sent[i].kind = "error"
                             /\ sent[i].chan = ChannelOf(ev[e].msg)
                             /\ sent[i].req = ev[e].req.id }

\* the steps of handle_role_approval after add_tester_to_group
LaterApprovalPcs == {"add_roles", "approval_dm", "approve_update", "mark_approved",
                     "mark_others"}

\* C14 as stated: the rejection is reported and the failure leaves the
\* approval handler as an exception.
C14_AsStated ==
    \A e \in Events :
        (EndedRun(e) /\ ev[e].failed = "InvalidAttributeError") =>
            /\ ErrorReports(e) # {}
            /\ ev[e].pc = "raised"

\* C14: when App Store Connect rejects an attribute of the tester, the
\* rejection is reported in the approval channel and raised again out of
\* add_tester_to_group; handle_role_approval catches it and returns: the
\* run takes none of the later steps and does not end in an exception.
C14_RejectedAttribute ==
    \A e \in Events :
        ev[e].failed = "InvalidAttributeError" =>
            /\ ev[e].reported
            /\ ErrorReports(e) # {}
            /\ ev[e].pc \notin LaterApprovalPcs
            /\ ev[e].raised = ""
            /\ ev[e].pc # "raised"
            /\ ev[e].dmApproval = 0
            /\ ~ev[e].completed

\* a run under on_raw_reaction_add has ended after a rejection: the request
\* is not approved, no role is granted, nothing is marked
C14_Witness ==
    \E e \in Events :
        /\ ev[e].entry = "on_raw_reaction_add"
        /\ ev[e].pc = "done"
        /\ ev[e].failed = "InvalidAttributeError"
        /\ ~StoredRequest(ev[e].req.id).approved
        /\ memberRoles["u1"] = {}
        /\ botReactions = {}

\* ---------------------------------------------------------------- claim C15
\* C15: when granting the roles fails, the failure is reported in the
\* approval channel and raised again, and the run takes none of the later
\* steps: no approval DM, no update_request, no completion reaction, no
\* marks on the other notifications.
C15_RoleGrantFailure ==
    \A e \in Events :
        ev[e].failed = "DiscordException" =>
            /\ ev[e].reported
            /\ ErrorReports(e) # {}
            /\ ev[e].raised = "DiscordException"
            /\ ev[e].pc \in {"finally", "raised"}
            /\ ev[e].dmApproval = 0
            /\ ~ev[e].completed
            /\ ev[e].marks = {}

\* a run has ended in the exception after the tester was added to the beta
\* group: the request is not approved, no DM was sent, nothing is marked
C15_Witness ==
    \E e \in Events :
        /\ ev[e].pc = "raised"
        /\ ev[e].failed = "DiscordException"
        /\ <<"u1", "g1">> \in betaGroups
        /\ ~StoredRequest(ev[e].req.id).approved
        /\ ApprovalDMs(ev[e].req.id) = {}
        /\ botReactions = {}
        /\ pendingMarks = {}

\* ---------------------------------------------------------------- claim C16
\* the error messages in the channel of the reaction, addressed to the
\* member who reacted
ErrorMessages(e) ==
    { i \in 1 .. Len(sent) : /\ sent[i].kind = "error"
                             /\ sent[i].chan = ChannelOf(ev[e].msg)
                             /\ sent[i].to = ev[e].user }

\* C16: every record store error raised while a reaction-added event is
\* handled, in onboarding or in approval, results in a message to the
\* triggering channel that describes the error.
C16_AsStated ==
    \A e \in Events :
        (EndedRun(e) /\ ev[e].failed = "AirTableError") =>
            /\ ev[e].reported
            /\ ErrorMessages(e) # {}

\* what does hold: the error is reported when the event is handled through
\* handle_reaction, and when it is the approval's update_request that fails
ReportedThroughHandleReaction ==
    \A e \in Events :
        (EndedRun(e) /\ ev[e].failed = "AirTableError"
            /\ (ev[e].entry = "handle_reaction" \/ ev[e].pc = "done")) =>
            /\ ev[e].reported
            /\ ErrorMessages(e) # {}

\* ---------------------------------------------------------------- claim C17
\* an approval run that found no request for the message reacted to, or
\* whose request names a Tester or an App the store does not hold
NothingToApprove(e) ==
    /\ EndedRun(e)
    /\ ev[e].emoji = "approve"
    /\ ev[e].fetched
    /\ \/ fetch_request(ev[e].msg) = NoRequest
       \/ \E r \in requests : /\ r.id = ev[e].req.id
                               /\ \/ ~\E t \in testers : t.id = r.tester
                                  \/ r.app \notin DOMAIN Apps

\* the replies of a run in the channel of the reaction
Replies(e) ==
    { i \in 1 .. Len(sent) : /\ sent[i].kind \in {"diagnostic", "error"}
                             /\ sent[i].chan = ChannelOf(ev[e].msg)
                             /\ sent[i].to = ev[e].user }

NoApprovalEffect(e) ==
    /\ ev[e].creates = 0
    /\ ev[e].dmApproval = 0
    /\ ~ev[e].completed
    /\ ev[e].marks = {}
    /\ ev[e].msg \notin Marked("white_check_mark")
    /\ \A r \in requests : r.id = ev[e].req.id => ~r.approved

\* C17: such a run posts a diagnostic reply and stops: no beta-group call,
\* no role grant, no DM, no store write, no reaction.
C17_AsStated ==
    \A e \in Events :
        NothingToApprove(e) => (Replies(e) # {} /\ NoApprovalEffect(e))

\* what does hold: such a run has none of the effects of an approval, and
\* a run that found no request has posted the reply
StopsWithoutEffect ==
    \A e \in Events :
        NothingToApprove(e) =>
            /\ NoApprovalEffect(e)
            /\ fetch_request(ev[e].msg) = NoRequest => Replies(e) # {}

\* ------------------------------------------------ the cache clear commands
\* the keys asked for: one the store does not hold until it is added by
\* hand, one it holds
ClearKeys == {"removal_emojis", "approval_emojis"}

InitClear ==
    /\ InitCache

NextClear ==
    \/ \E e \in Events :
        \/ \E key \in ClearKeys : started < MaxLookups /\ call_get_config(e, key)
        \/ started < MaxLookups /\ clear_server_cache(e)
        \/ clear_server_cache_locked(e)
        \/ get_config_check(e)
        \/ get_config_locked(e)
        \/ retrieve_config_locked(e)
        \/ retrieve_config(e)
    \/ \E key \in DOMAIN AddedValue : add_config_entry(key)

SpecClear == InitClear /\ [][NextClear]_vars

\* ---------------------------------------------------------------- claim C18
\* the first get_config call for its key since clear_server_cache returns
FirstSinceClear(e) ==
    /\ ev[e].entry = "get_config"
    /\ ev'[e].cleared
    /\ ev[e].pc # "done"
    /\ ev'[e].pc = "done"

\* the call has fetched, or finds what a call in flight has fetched since
\* the clear, and returns what the store holds
Refetched(e) ==
    /\ ev'[e].retrieved \/ cfgCache[ev[e].key] # "?"
    /\ ev'[e].value = cfgStore[ev[e].key]

\* C18: after clear_server_cache the next get_config call for any key of
\* the guild fetches from the record store and returns what the store
\* holds, also for a key recorded as absent before.
C18_AsStated ==
    [][\A e \in Events : FirstSinceClear(e) => Refetched(e)]_vars

\* what does hold: the same of a key that is not in the negative cache,
\* which the clear leaves alone
ClearedRefetch ==
    [][\A e \in Events :
          (FirstSinceClear(e) /\ ev[e].key \notin negCache) => Refetched(e)]_vars

\* the clear leaves the negative cache as it is
ClearKeepsNegativeCache ==
    [][\A e \in Events :
          (ev[e].pc # "done" /\ ev'[e].pc = "done"
              /\ ev'[e].entry = "clear_server_cache") => negCache' = negCache]_vars

\* ---------------------------------------------------------------- claim C19
\* get_config(guild, key) takes its first step, the key being in the
\* negative cache
NegativeLookup(e) ==
    /\ ev[e].pc = "get_config"
    /\ ev'[e].pc # "get_config"
    /\ ev[e].key \in negCache

\* the call returns None: no lock is asked for and retrieve_config is not
\* called
ReturnsNoneUnfetched(e) ==
    /\ ev'[e].pc = "done"
    /\ ev'[e].value = ""
    /\ ~ev'[e].retrieved
    /\ cfgLock' = cfgLock

\* C19 as it is stated: a get_config call for a key in the negative cache
\* returns None without a request to the store, also while a refresh_cache
\* run is in progress (the run not being at this very key).
C19_AsStated ==
    [][\A e \in Events :
          (NegativeLookup(e) /\ job.key # ev[e].key) => ReturnsNoneUnfetched(e)]_vars

\* C19: a get_config call for a key in the negative cache returns None
\* without a request to the store when config_key_negative_cache_lock is
\* not held as the call is made.
C19_NegativeCacheBelieved ==
    [][\A e \in Events :
          (NegativeLookup(e) /\ negLock = <<>>) => ReturnsNoneUnfetched(e)]_vars

\* a call has returned None from the negative cache, its lock free
C19_Witness ==
    \E e \in Events :
        /\ ev[e].entry = "get_config"
        /\ ev[e].pc = "done"
        /\ ev[e].key \in negCache
        /\ ev[e].value = ""
        /\ ~ev[e].retrieved
        /\ negLock = <<>>

\* ------------------------------------------------------ a miss of a cache
\* reaction_roles_lock is held from the cache test of get_reaction_role to
\* the return of _fetch_reaction, and by list_watched_message_ids for the
\* whole of its listing
ReactionRolesLockHeld ==
    \/ \E f \in Events : ev[f].pc = "_fetch_reaction"
    \/ "reaction_roles_lock" \in job.holds

RoleMsgs == {Msg.gated, Msg.plain}

\* a caller awaits get_reaction_role(guild, msg, emoji)
call_get_reaction_role(e, msg, emoji) ==
    /\ FreeSlot(e)
    /\ started' = started + 1
    /\ Set(e, [IdleEvent EXCEPT !.pc = "reaction_roles_lock",
                                !.entry = "get_reaction_role",
                                !.msg = msg, !.emoji = emoji])
    /\ UNCHANGED <<httpVars, storeVars, cacheVars, lockVars, chatVars, betaGroups,
                   pendingMarks, now, forms, job>>

\* the same step were the cached map of a message taken to be all of its
\* mappings
get_reaction_role_locked_whole(e) ==
    LET p == ev[e]
        hit == { r \in rrCache : r.msg = p.msg /\ r.emoji = p.emoji }
    IN /\ p.pc = "reaction_roles_lock"
       /\ ~ReactionRolesLockHeld
       /\ IF hit # {}
          THEN \E r \in hit : Set(e, Returned([p EXCEPT !.rr = r], r.role))
          ELSE IF \E r \in rrCache : r.msg = p.msg
          THEN Set(e, Returned(p, ""))
          ELSE Set(e, [p EXCEPT !.pc = "_fetch_reaction"])
       /\ UNCHANGED <<httpVars, storeVars, cacheVars, lockVars, chatVars, betaGroups,
                      pendingMarks, now, forms, started, job>>

\* get_reaction_role with reaction_roles_lock in hand: a hit is returned
\* and the lock released; on a miss _fetch_reaction is awaited, the lock
\* kept
get_reaction_role_locked(e) ==
    LET p == ev[e]
        hit == { r \in rrCache : r.msg = p.msg /\ r.emoji = p.emoji }
    IN /\ p.pc = "reaction_roles_lock"
       /\ ~ReactionRolesLockHeld
       /\ IF hit # {}
          THEN \E r \in hit : Set(e, Returned([p EXCEPT !.rr = r], r.role))
          ELSE Set(e, [p EXCEPT !.pc = "_fetch_reaction"])
       /\ UNCHANGED <<httpVars, storeVars, cacheVars, lockVars, chatVars, betaGroups,
                      pendingMarks, now, forms, started, job>>

\* _fetch_reaction: the role read from the store goes into the cache and
\* its message into watched_message_ids; none read is None
fetch_reaction(e) ==
    LET p == [ev[e] EXCEPT !.retrieved = TRUE]
        found == { r \in rrStore : r.msg = p.msg /\ r.emoji = p.emoji }
    IN /\ p.pc = "_fetch_reaction"
       /\ ~p.hung
       /\ IF found # {}
          THEN \E r \in found :
                 /\ rrCache' = rrCache \cup {r}
                 /\ watched' = watched \cup {p.msg}
                 /\ Set(e, Returned([p EXCEPT !.rr = r], r.role))
          ELSE /\ Set(e, Returned(p, ""))
               /\ UNCHANGED <<rrCache, watched>>
       /\ UNCHANGED <<httpVars, storeVars, approvalsChannelIds, cfgCache, negCache, ttl,
                      lockVars, chatVars, betaGroups, pendingMarks, now, forms,
                      started, job>>

InitMiss ==
    /\ InitCache

NextMiss ==
    \E e \in Events :
        \/ \E key \in ClearKeys : started < MaxLookups /\ call_get_config(e, key)
        \/ started < MaxLookups /\ clear_server_cache(e)
        \/ clear_server_cache_locked(e)
        \/ get_config_check(e)
        \/ get_config_locked(e)
        \/ retrieve_config_locked(e)
        \/ retrieve_config(e)
        \/ \E msg \in RoleMsgs : started < MaxLookups /\ call_get_reaction_role(e, msg, "join")
        \/ get_reaction_role_locked(e)
        \/ fetch_reaction(e)

SpecMiss == InitMiss /\ [][NextMiss]_vars

\* ---------------------------------------------------------------- claim C20
\* a get_config call for a cached key waits for config_lock while another
\* call, for another key, holds it and fetches
ConfigReadDelayed ==
    \E e, f \in Events :
        /\ ev[e].pc = "retrieve_config"
        /\ ev[f].pc = "get_config_locked"
        /\ ev[f].key # ev[e].key
        /\ cfgCache[ev[f].key] # "?"

\* the same of get_reaction_role and reaction_roles_lock
ReactionRoleReadDelayed ==
    \E e, f \in Events :
        /\ ev[e].pc = "_fetch_reaction"
        /\ ev[f].pc = "reaction_roles_lock"
        /\ ev[f].msg # ev[e].msg
        /\ \E r \in rrCache : r.msg = ev[f].msg /\ r.emoji = ev[f].emoji

\* C20: on a miss of the reaction-role cache or of the config cache the
\* lock of the cache is not held while the fetch from the record store is
\* in flight, so that a read of another key, already in the cache, does not
\* wait for the fetch.
C20_AsStated ==
    /\ ~ConfigReadDelayed
    /\ ~ReactionRoleReadDelayed

\* what does hold: the fetch of a miss is made with the lock of the cache
\* held
FetchUnderLock ==
    \A e \in Events :
        /\ ev[e].pc = "retrieve_config" => (cfgLock # <<>> /\ Head(cfgLock) = e)
        /\ ev[e].pc = "_fetch_reaction" =>
              \A f \in Events \ {e} : ev[f].pc # "_fetch_reaction"

\* ------------------------------------------------- the jobs of the scheduler
\* refresh_reaction_role_caches: asyncio.gather starts the two listings
refresh_reaction_role_caches_gather ==
    /\ job.listing = {}
    /\ job.gathers < MaxRuns
    /\ job' = [job EXCEPT !.gathers = @ + 1,
                          !.listing = {"list_watched_message_ids",
                                       "list_approvals_channel_ids"}]
    /\ UNCHANGED <<httpVars, storeVars, cacheVars, lockVars, chatVars, betaGroups,
                   pendingMarks, now, forms, started, ev>>

\* list_watched_message_ids takes reaction_roles_lock; the listing of the
\* Reaction Roles table is then in flight
list_watched_message_ids_locked ==
    /\ "list_watched_message_ids" \in job.listing
    /\ ~ReactionRolesLockHeld
    /\ job' = [job EXCEPT !.holds = @ \cup {"reaction_roles_lock"}]
    /\ UNCHANGED <<httpVars, storeVars, cacheVars, lockVars, chatVars, betaGroups,
                   pendingMarks, now, forms, started, ev>>

\* the listing has ended: watched_message_ids is replaced, the lock released
list_watched_message_ids ==
    /\ "reaction_roles_lock" \in job.holds
    /\ watched' = { r.msg : r \in rrStore }
    /\ job' = [job EXCEPT !.holds = @ \ {"reaction_roles_lock"},
                          !.listing = @ \ {"list_watched_message_ids"}]
    /\ UNCHANGED <<httpVars, storeVars, rrCache, approvalsChannelIds, cfgCache, negCache,
                   ttl, lockVars, chatVars, betaGroups, pendingMarks, now, forms,
                   started, ev>>

\* list_approvals_channel_ids under approval_channels_lock, which nothing
\* else takes: approvals_channel_ids is replaced
list_approvals_channel_ids ==
    /\ "list_approvals_channel_ids" \in job.listing
    /\ approvalsChannelIds' = { Apps[a].channel : a \in AppIds } \ {""}
    /\ job' = [job EXCEPT !.listing = @ \ {"list_approvals_channel_ids"}]
    /\ UNCHANGED <<httpVars, storeVars, watched, rrCache, cfgCache, negCache, ttl,
                   lockVars, chatVars, betaGroups, pendingMarks, now, forms,
                   started, ev>>

\* the caches hold what the store holds but one Config key and one role
InitRefresh ==
    /\ InitCache

\* the cache reads of the handlers while the two jobs run
NextRefresh ==
    \/ \E e \in Events :
        \/ \E key \in LookupKeys : started < MaxLookups /\ call_get_config(e, key)
        \/ get_config_check(e)
        \/ get_config_locked(e)
        \/ retrieve_config_locked(e)
        \/ retrieve_config(e)
        \/ negative_cache_add(e)
        \/ \E msg \in RoleMsgs : started < MaxLookups /\ call_get_reaction_role(e, msg, "join")
        \/ get_reaction_role_locked(e)
        \/ fetch_reaction(e)
    \/ refresh_reaction_role_caches_gather
    \/ list_watched_message_ids_locked
    \/ list_watched_message_ids
    \/ list_approvals_channel_ids
    \/ refresh_cache
    \/ refresh_cache_locked
    \/ refresh_entries_locked
    \/ refresh_entries_retrieve
    \/ refresh_negative_locked
    \/ refresh_negative_config_locked
    \/ refresh_negative_retrieve
    \/ \E key \in DOMAIN AddedValue : add_config_entry(key)

SpecRefresh == InitRefresh /\ [][NextRefresh]_vars

\* ---------------------------------------------------------------- claim C21
\* get_reaction_role for a cached message waits for reaction_roles_lock
\* while list_watched_message_ids holds it for its listing
HandlerWaitsForListing ==
    \E e \in Events :
        /\ ev[e].pc = "reaction_roles_lock"
        /\ \E r \in rrCache : r.msg = ev[e].msg /\ r.emoji = ev[e].emoji
        /\ "reaction_roles_lock" \in job.holds

\* get_config for a cached key waits for config_lock while refresh_cache
\* holds it for the request of retrieve_config
HandlerWaitsForRefreshCache ==
    \E e \in Events :
        /\ ev[e].pc = "get_config_locked"
        /\ cfgCache[ev[e].key] # "?"
        /\ job.pc \in {"entries_retrieve", "negative_retrieve"}
        /\ cfgLock # <<>> /\ Head(cfgLock) = 0

\* C21: a refresh job that is running (the listing of the watched messages
\* and approval channels, the refresh of the config cache) never makes a
\* handler that needs cached data only wait for the job's requests to the
\* record store.
C21_AsStated ==
    /\ ~HandlerWaitsForListing
    /\ ~HandlerWaitsForRefreshCache

\* ---------------------------------------------------------------- claim C22
\* the awaits of handle_role_reaction inside `async with` of the user's lock
LockedPcs == {"find_tester", "upsert_tester", "list_requests", "add_request",
              "registration", "send_registration"}

\* the awaits of send_request_notification_message, after the block
NotificationPcs == {"notify", "update_request"}

\* no two handlers of one user are at once at a step of pcs
Serialized(pcs) ==
    \A e, f \in Events :
        (e # f /\ ev[e].user = ev[f].user /\ ev[e].entry = ev[f].entry
              /\ ev[e].entry \in {"on_raw_reaction_add", "handle_reaction"})
            => ~(ev[e].pc \in pcs /\ ev[f].pc \in pcs)

\* C22 as it is stated: find-or-create of the Tester and of the request, the
\* registration prompt, and the sending and persisting of the notification
\* are serialized by the lock of the user.
C22_AsStated == Serialized(LockedPcs \cup NotificationPcs)

\* C22: find-or-create of the Tester, find-or-create of the request and the
\* registration prompt are serialized by the lock of the user: no two
\* handlers of one user are inside any of these steps at once.
C22_LockedSteps == Serialized(LockedPcs)

\* a handler of the user is inside the block, another one waits for the lock
C22_Witness ==
    \E e, f \in Events :
        /\ e # f
        /\ ev[e].user = ev[f].user
        /\ ev[e].pc \in LockedPcs
        /\ ev[f].pc = "role_or_lock"
        /\ ev[f].rr.apps # <<>>
        /\ testerLocks[ev[e].user] = e

\* ----------------------------------------------- the locks of the testers
\* tester_locks is a WeakValueDictionary: the entry of a key is there as
\* long as its asyncio.Lock is referenced, which it is by the frame of every
\* handler from setdefault to the end of its `async with` block.  A lock is
\* named by a number; ev[e].lock is the lock the handler e refers to
Referenced == { ev[e].lock : e \in Events } \ {0}

\* tester_locks.get(user): the lock of the entry, 0 with no entry
TesterLocksEntry(user) ==
    IF \E e \in Events : ev[e].user = user /\ ev[e].lock # 0
    THEN CHOOSE l \in Referenced :
             \E e \in Events : ev[e].user = user /\ ev[e].lock = l
    ELSE 0

\* asyncio.Lock(): an object that is none of those alive
NewLock == CHOOSE l \in Events : l \notin Referenced

Holds(e) == ev[e].pc = "locked_section"

\* the same step were the new Lock stored whatever the entry
tester_locks_assign(e, user) ==
    /\ FreeSlot(e)
    /\ started' = started + 1
    /\ Set(e, [IdleEvent EXCEPT !.pc = "tester_lock",
                                !.entry = "handle_role_reaction",
                                !.user = user, !.lock = NewLock])
    /\ UNCHANGED <<httpVars, storeVars, cacheVars, lockVars, chatVars, betaGroups,
                   pendingMarks, now, forms, job>>

\* a handler of the user reaches self.tester_locks.setdefault(user, Lock())
tester_locks_setdefault(e, user) ==
    /\ FreeSlot(e)
    /\ started' = started + 1
    /\ Set(e, [IdleEvent EXCEPT !.pc = "tester_lock",
                                !.entry = "handle_role_reaction",
                                !.user = user,
                                !.lock = IF TesterLocksEntry(user) # 0
                                         THEN TesterLocksEntry(user)
                                         ELSE NewLock])
    /\ UNCHANGED <<httpVars, storeVars, cacheVars, lockVars, chatVars, betaGroups,
                   pendingMarks, now, forms, job>>

\* async with: Lock.acquire returns once no handler holds this lock
tester_lock_acquire(e) ==
    /\ ev[e].pc = "tester_lock"
    /\ \A f \in Events : Holds(f) => ev[f].lock # ev[e].lock
    /\ testerLocks' = [testerLocks EXCEPT ![ev[e].user] = e]
    /\ Set(e, [ev[e] EXCEPT !.pc = "locked_section", !.locked = TRUE])
    /\ UNCHANGED <<httpVars, storeVars, cacheVars, cfgLock, negLock, chatVars,
                   betaGroups, pendingMarks, now, forms, started, job>>

\* the block is left: the lock is released and the frame's reference to it
\* goes
tester_lock_release(e) ==
    /\ Holds(e)
    /\ testerLocks' = [testerLocks EXCEPT ![ev[e].user] = 0]
    /\ Set(e, [ev[e] EXCEPT !.pc = "done", !.lock = 0])
    /\ UNCHANGED <<httpVars, storeVars, cacheVars, cfgLock, negLock, chatVars,
                   betaGroups, pendingMarks, now, forms, started, job>>

InitLocks ==
    /\ InitOnboard

NextLocks ==
    \E e \in Events :
        \/ \E user \in Users : started < MaxArrivals /\ tester_locks_setdefault(e, user)
        \/ tester_lock_acquire(e)
        \/ tester_lock_release(e)

SpecLocks == InitLocks /\ [][NextLocks]_vars

\* ---------------------------------------------------------------- claim C23
\* C23: the lock of a user excludes per key and not across keys.  Two
\* handlers of one user refer to the same lock and are never both inside the
\* block; handlers of different users refer to different locks, and one that
\* waits can go on unless a handler of its own user is inside; the entry of a
\* lock that is held or awaited is in tester_locks.
C23_KeyedLock ==
    \A e, f \in Events :
        /\ (e # f /\ ev[e].lock # 0 /\ ev[f].lock # 0) =>
              /\ (ev[e].user = ev[f].user) <=> (ev[e].lock = ev[f].lock)
              /\ ev[e].user = ev[f].user => ~(Holds(e) /\ Holds(f))
        /\ ev[e].pc = "tester_lock" =>
              \/ ENABLED tester_lock_acquire(e)
              \/ \E g \in Events : Holds(g) /\ ev[g].user = ev[e].user
        /\ ev[e].pc \in {"tester_lock", "locked_section"} =>
              TesterLocksEntry(ev[e].user) = ev[e].lock

\* a handler of a user holds the lock, another handler of the user waits
\* for the same lock
C23_Witness ==
    \E e, f \in Events :
        /\ e # f
        /\ Holds(e)
        /\ ev[f].pc = "tester_lock"
        /\ ev[f].user = ev[e].user
        /\ ev[f].lock = ev[e].lock

\* ------------------------------------------------- records edited by hand
\* the reaction role and the Config entry that are edited, and what they
\* are edited to
StaleRole == CHOOSE r \in AllReactionRoles : r.msg = Msg.plain

EditedRole == [StaleRole EXCEPT !.role = "rA2"]

StaleKey == "approval_emojis"

EditedValue == "approve2"

\* the caches are empty or hold what the store holds
InitStale ==
    /\ testers = {}
    /\ requests = {}
    /\ rrStore = AllReactionRoles
    /\ cfgStore = [k \in ConfigKeys |->
                     IF k \in LookupKeys THEN ""
                     ELSE IF k = "default_approvals_channel" THEN "chDef"
                     ELSE IF k = "rule_agreement_role" THEN "rRules"
                     ELSE "approve"]
    /\ nextRec = 1
    /\ watched = { r.msg : r \in AllReactionRoles }
    /\ rrCache \in { {}, {StaleRole} }
    /\ approvalsChannelIds = { Apps[a].channel : a \in AppIds } \ {""}
    /\ cfgCache \in { [k \in ConfigKeys |-> "?"],
                      [k \in ConfigKeys |-> IF k = StaleKey THEN cfgStore[k] ELSE "?"] }
    /\ negCache = {}
    /\ ttl = [k \in TtlKeys |-> "?"]
    /\ cfgLock = <<>>
    /\ negLock = <<>>
    /\ testerLocks = [u \in Users |-> 0]
    /\ sent = <<>>
    /\ botReactions = {}
    /\ memberRoles = [u \in Users |-> {}]
    /\ betaGroups = {}
    /\ pendingMarks = {}
    /\ now = 0
    /\ forms = 0
    /\ started = 0
    /\ ev = [e \in Events |-> IdleEvent]
    /\ job = IdleJob
    /\ semaphore = SemaphoreValue
    /\ calls = [c \in Calls |-> IdleCall]

\* no scheduled job has begun yet
BeforeJobs == job.runs = 0 /\ job.gathers = 0

\* the role of a Reaction Roles record is changed by hand
edit_reaction_role ==
    /\ BeforeJobs
    /\ StaleRole \in rrStore
    /\ rrStore' = (rrStore \ {StaleRole}) \cup {EditedRole}
    /\ UNCHANGED <<httpVars, testers, requests, cfgStore, nextRec, cacheVars, lockVars,
                   chatVars, betaGroups, pendingMarks, now, forms, started, ev,
                   job>>

\* the record is deleted by hand
delete_reaction_role ==
    /\ BeforeJobs
    /\ StaleRole \in rrStore
    /\ rrStore' = rrStore \ {StaleRole}
    /\ UNCHANGED <<httpVars, testers, requests, cfgStore, nextRec, cacheVars, lockVars,
                   chatVars, betaGroups, pendingMarks, now, forms, started, ev,
                   job>>

\* the value of a Config entry is changed by hand
edit_config_entry ==
    /\ BeforeJobs
    /\ cfgStore[StaleKey] \notin {"", EditedValue}
    /\ cfgStore' = [cfgStore EXCEPT ![StaleKey] = EditedValue]
    /\ UNCHANGED <<httpVars, testers, requests, rrStore, nextRec, cacheVars, lockVars,
                   chatVars, betaGroups, pendingMarks, now, forms, started, ev,
                   job>>

\* the entry is deleted by hand
delete_config_entry ==
    /\ BeforeJobs
    /\ cfgStore[StaleKey] # ""
    /\ cfgStore' = [cfgStore EXCEPT ![StaleKey] = ""]
    /\ UNCHANGED <<httpVars, testers, requests, rrStore, nextRec, cacheVars, lockVars,
                   chatVars, betaGroups, pendingMarks, now, forms, started, ev,
                   job>>

NextStale ==
    \/ \E e \in Events :
        \/ started < MaxLookups /\ call_get_config(e, StaleKey)
        \/ get_config_check(e)
        \/ get_config_locked(e)
        \/ retrieve_config_locked(e)
        \/ retrieve_config(e)
        \/ started < MaxLookups /\ call_get_reaction_role(e, Msg.plain, "join")
        \/ get_reaction_role_locked(e)
        \/ fetch_reaction(e)
    \/ edit_reaction_role
    \/ delete_reaction_role
    \/ edit_config_entry
    \/ delete_config_entry
    \/ refresh_reaction_role_caches_gather
    \/ list_watched_message_ids_locked
    \/ list_watched_message_ids
    \/ list_approvals_channel_ids
    \/ refresh_cache
    \/ refresh_cache_locked
    \/ refresh_entries_locked
    \/ refresh_entries_retrieve
    \/ refresh_negative_config_locked
    \/ refresh_negative_retrieve

SpecStale == InitStale /\ [][NextStale]_vars

\* ---------------------------------------------------------------- claim C24
\* both scheduled jobs have run to their end, having begun after the edits
Refreshed ==
    /\ job.runs > 0 /\ job.pc = "done"
    /\ job.gathers > 0 /\ job.listing = {}

ReactionRolesFresh == \A r \in rrCache : r \in rrStore

ConfigFresh == \A k \in ConfigKeys : cfgCache[k] # "?" => cfgCache[k] = cfgStore[k]

\* C24: an entry of the reaction-role cache or of the config cache expires
\* and is fetched again with no cache clear command: once the scheduled jobs
\* have run after a record was changed or deleted in the store, the caches
\* hold nothing the store does not hold.
C24_AsStated == Refreshed => (ReactionRolesFresh /\ ConfigFresh)

\* what does hold: a Config entry whose value was changed is read again by
\* refresh_cache
ChangedConfigRefreshed ==
    (Refreshed /\ cfgStore[StaleKey] # "") => ConfigFresh

\* ------------------------------------- a message with two reaction roles
\* a second ReactionRole record of the message of StaleRole
OtherRole == [msg |-> Msg.plain, emoji |-> "alt", role |-> "rA2", apps |-> <<>>,
              rules |-> FALSE]

\* the record is added to the table before any reaction is looked up
add_other_reaction_role ==
    /\ started = 0
    /\ OtherRole \notin rrStore
    /\ rrStore' = rrStore \cup {OtherRole}
    /\ UNCHANGED <<httpVars, testers, requests, cfgStore, nextRec, cacheVars, lockVars,
                   chatVars, betaGroups, pendingMarks, now, forms, started, ev,
                   job>>

InitParts ==
    /\ InitCache

NextParts ==
    \/ \E e \in Events :
        \/ \E emoji \in {"join", "alt"} :
              started < MaxLookups /\ call_get_reaction_role(e, Msg.plain, emoji)
        \/ get_reaction_role_locked(e)
        \/ fetch_reaction(e)
    \/ add_other_reaction_role

SpecParts == InitParts /\ [][NextParts]_vars

\* ---------------------------------------------------------------- claim C25
CachedOf(msg) == { r \in rrCache : r.msg = msg }

StoredOf(msg) == { r \in rrStore : r.msg = msg }

\* C25 as it is stated: the cached map of a message is absent or is all the
\* ReactionRole records of the message, as one fetch returned them.
C25_AsStated ==
    \A msg \in {Msg.plain} : CachedOf(msg) = {} \/ CachedOf(msg) = StoredOf(msg)

\* get_reaction_role returns None
ReturnsNoRole(e) ==
    /\ ev[e].entry = "get_reaction_role"
    /\ ev[e].pc # "done"
    /\ ev'[e].pc = "done"
    /\ ev'[e].rr = NoRole

\* C25: every entry of the cached map of a message is the ReactionRole
\* record of its reaction as one fetch returned it; the map may hold part
\* of the message's mappings only, and a reaction that is not in it is
\* fetched: get_reaction_role returns None only when the store has no
\* record of the reaction.
C25_EntriesWhole ==
    /\ [](rrCache \subseteq rrStore)
    /\ [][\A e \in Events :
            ReturnsNoRole(e) =>
                ~\E r \in rrStore : r.msg = ev[e].msg /\ r.emoji = ev[e].emoji]_vars

\* the map of the message holds one of its two mappings, and the call for
\* the other reaction is at its fetch
C25_Witness ==
    \E e \in Events :
        /\ ev[e].pc = "_fetch_reaction"
        /\ ev[e].msg = Msg.plain
        /\ StoredOf(Msg.plain) = {StaleRole, OtherRole}
        /\ Cardinality(CachedOf(Msg.plain)) = 1

\* ------------------------------------------------- a call that never returns
\* the request to the record store that a cache miss makes gets no response,
\* ever: the coroutine stays at its await, with what it holds
request_hangs(e) ==
    /\ ev[e].pc \in {"_fetch_reaction", "retrieve_config"}
    /\ \A f \in Events : ~ev[f].hung
    /\ Set(e, [ev[e] EXCEPT !.hung = TRUE])
    /\ UNCHANGED <<httpVars, storeVars, cacheVars, lockVars, chatVars, betaGroups,
                   pendingMarks, now, forms, started, job>>

InitHang ==
    /\ InitCache

NextHang ==
    \E e \in Events :
        \/ \E key \in ClearKeys : started < MaxLookups /\ call_get_config(e, key)
        \/ get_config_check(e)
        \/ get_config_locked(e)
        \/ retrieve_config(e)
        \/ \E msg \in RoleMsgs :
              started < MaxLookups /\ call_get_reaction_role(e, msg, "join")
        \/ get_reaction_role_locked(e)
        \/ fetch_reaction(e)
        \/ request_hangs(e)

SpecHang == InitHang /\ [][NextHang]_vars

\* ---------------------------------------------------------------- claim C26
\* the call f, for a reaction role or a Config key that is cached, waits for
\* the lock that the call e holds at its request, which got no response
BlockedBehind(e, f) ==
    /\ e # f
    /\ ev[e].hung
    /\ \/ /\ ev[e].pc = "_fetch_reaction"
          /\ ev[f].pc = "reaction_roles_lock"
          /\ \E r \in rrCache : r.msg = ev[f].msg /\ r.emoji = ev[f].emoji
       \/ /\ ev[e].pc = "retrieve_config"
          /\ ev[f].pc = "get_config_locked"
          /\ cfgCache[ev[f].key] # "?"

\* C26: an external call that never returns delays the event of its handler
\* only: a handler that needs cached data only is not kept from running to
\* its end.
C26_AsStated == \A e, f \in Events : ~BlockedBehind(e, f)

\* what does hold: the handler that waits behind such a call waits for good
BlockedForGood ==
    [][\A e, f \in Events : BlockedBehind(e, f) => BlockedBehind(e, f)']_vars

\* ---------------------------------------------------------------- claim C27
\* a user, who may have registered before, reacts and submits the form
InitNotify ==
    /\ Constructed
    /\ testers \in { {}, { [NoTester EXCEPT !.id = 1, !.discord = "u1", !.email = "e0"] } }
    /\ requests = {}
    /\ rrStore = AllReactionRoles
    /\ cfgStore \in { c \in GuildConfigs : /\ c.default_approvals_channel = "chDef"
                                          /\ c.rule_agreement_role = "rRules"
                                          /\ c.rule_agreement_message = "chRules" }
    /\ nextRec = Cardinality(testers) + 1
    /\ memberRoles = [u \in Users |-> {}]
    /\ betaGroups = {}

SpecNotify == InitNotify /\ [][NextOnboard]_vars

\* the ids of the approval-channel notifications sent for a request, in the
\* order of sending
SentFor(id) ==
    { i \in 1..Len(sent) : sent[i].kind = "notification" /\ sent[i].req = id }

FirstSentFor(id) == CHOOSE i \in SentFor(id) : \A j \in SentFor(id) : i <= j

\* every notification sent for the request has had its update_request
Persisted(id) ==
    \A e \in Events : ~(ev[e].pc \in NotificationPcs /\ ev[e].req.id = id)

\* C27: the id of the first notification sent for a request is its primary
\* notification id, and the id of every later one (repeat reaction or form
\* submission) is in its list of further ids, the primary id unchanged.
C27_AsStated ==
    \A r \in requests :
        (Persisted(r.id) /\ SentFor(r.id) # {})
            => /\ r.notif = FirstSentFor(r.id)
               /\ SeqToSet(r.further) = SentFor(r.id) \ {FirstSentFor(r.id)}

\* what does hold: an id kept on a request is the id of a notification that
\* was sent for it
PersistedIdsWereSent ==
    \A r \in requests : NotificationIds(r) \subseteq SentFor(r.id)

\* the form overwrites the primary id of a request that had one
PrimaryOverwritten ==
    \E r \in requests :
        /\ Persisted(r.id)
        /\ forms > 0
        /\ SentFor(r.id) # {}
        /\ r.notif \in SentFor(r.id)
        /\ r.notif # FirstSentFor(r.id)
        /\ \A e \in Events : ev[e].pc \in {"idle", "done"}

\* the repeat notification of a second reaction is sent before the first one
RepeatSentFirst ==
    \E r \in requests :
        /\ Persisted(r.id)
        /\ forms = 0
        /\ SentFor(r.id) # {}
        /\ FirstSentFor(r.id) \in SeqToSet(r.further)

\* ---------------------------------------------------------------- claim C28
\* the ReactionRole without an app that the reaction of the handler e names
PlainRoles(e) ==
    { r \in rrStore : r.msg = ev[e].msg /\ r.emoji = ev[e].emoji /\ r.apps = <<>> }

\* a step of the handler of such a reaction
PlainStep(e) ==
    /\ PlainRoles(e) # {}
    /\ ev[e].pc \notin {"idle", "done"}
    /\ ev'[e] # ev[e]

\* the step calls member.add_roles
GrantCall(e) == ev'[e].chatWrite /\ ~ev[e].chatWrite

\* the reaction has been handled: the member holds the role, the mapping and
\* its message are cached
PlainHandled(user, r) ==
    /\ r.role \in memberRoles[user]
    /\ r \in rrCache
    /\ r.msg \in watched

GatePayloads ==
    { <<"mod", 2, "approve">>, <<"mod", 3, "wave">>, <<"mod", 1, "approve">>,
      <<"mod", Msg.foreign, "approve">>, <<"mod", Msg.other, "approve">>,
      <<"mod", Msg.leave, "approve">> }

NextApprovalGates ==
    \/ \E e \in Events :
        \/ \E pl \in GatePayloads :
              started < MaxEvents /\ Deliver(e, "on_raw_reaction_add", pl[1], pl[2], pl[3])
        \/ handle_role_reaction(e)
        \/ handle_role_approval(e)
        \/ approval_emojis(e)
        \/ approval_fetch_request(e)
        \/ approval_fetch_tester(e)
        \/ find_beta_tester(e)
        \/ create_beta_tester(e)
        \/ add_roles(e)
        \/ send_approval_notification(e)
        \/ approval_update_request(e)
        \/ mark_approved(e)
        \/ mark_others(e)
    \/ add_handled_reaction
    \/ refresh_reaction_role_caches

SpecApprovalGates == InitApproval /\ [][NextApprovalGates]_vars

\* the three conditions, as the records of the guild have them
ApprovalChannels ==
    ({ Apps[a].channel : a \in AppIds } \cup {cfgStore["default_approvals_channel"]})
        \ {""}

ApprovalConditions(e) ==
    /\ ChannelOf(ev[e].msg) \in ApprovalChannels
    /\ OwnMessage(ev[e].msg)
    /\ ev[e].emoji \in {cfgStore["approval_emojis"]} \ {""}

\* the steps of handle_role_approval that test the conditions, and the
\* steps behind them
GatePcs == {"handle_role_approval", "approval_emojis"}

BehindGatePcs == {"fetch_request", "fetch_tester", "find_beta_tester",
                  "create_beta_tester"} \cup LaterApprovalPcs

\* C29: the approval handler goes on only for a reaction in an approval
\* channel, on a message of the bot, with an approval emoji; until the three
\* conditions are found to hold it writes nothing to the store, grants no
\* role, sends no DM and no message, adds no reaction and calls no
\* beta-distribution API.
C29_ApprovalGates ==
    /\ [](\A e \in Events : ev[e].pc \in BehindGatePcs => ApprovalConditions(e))
    /\ [][\A e \in Events :
            (ev[e].pc \in GatePcs /\ ev'[e] # ev[e]) =>
                /\ UNCHANGED <<storeVars, chatVars, betaGroups, pendingMarks, httpVars>>
                /\ ev'[e].chatWrite = ev[e].chatWrite
                /\ ev'[e].creates = ev[e].creates
                /\ ev'[e].dmApproval = ev[e].dmApproval
                /\ ev'[e].marks = ev[e].marks]_vars

\* reactions that fail one condition each have been handled, and nothing
\* has changed
C29_Witness ==
    /\ started = MaxEvents
    /\ \A e \in Events : ev[e].pc = "done" /\ ~ApprovalConditions(e)
    /\ \E e \in Events : ev[e].msg = Msg.foreign
    /\ \E e \in Events : ev[e].emoji = "wave"
    /\ Len(sent) = 4 /\ botReactions = {} /\ betaGroups = {}
    /\ \A r \in requests : ~r.approved

\* ---------------------------------------------------------------- claim C30
\* C30: the Testers table holds at most one record for a chat user id,
\* however the gated reactions and the form submissions of the user
\* interleave, and no step removes a Tester record.
C30_OneTesterPerUser ==
    /\ [](\A t, u \in testers : t.discord = u.discord => t = u)
    /\ [][\A t \in testers :
            \E u \in testers' : u.id = t.id /\ u.discord = t.discord]_vars

\* the upserts of a reaction and of a form have met in one record: it has
\* the id of the registration prompt and the email
C30_Witness ==
    /\ forms > 0
    /\ \E t \in testers : /\ t.discord = "u1"
                          /\ t.regMsg # 0
                          /\ t.email # ""
                          /\ testers = {t}

\* ------------------------------------------------------ Storage._iterate
\* what the store answers for a path: the page for a request without offset
\* ("") and the page for each offset it has handed out; a page has records
\* and the offset of the next page ("" when there is none)
Page(recs, offset) == [records |-> recs, offset |-> offset]

Listings ==
    { [none |-> Page(<<>>, ""),      tA |-> Page(<<9>>, ""),    tB |-> Page(<<9>>, "")],
      [none |-> Page(<<1, 2>>, ""),  tA |-> Page(<<9>>, ""),    tB |-> Page(<<9>>, "")],
      [none |-> Page(<<1, 2>>, "tB"), tA |-> Page(<<9>>, ""),   tB |-> Page(<<3>>, "")],
      [none |-> Page(<<1>>, "tB"),   tA |-> Page(<<2, 3>>, ""), tB |-> Page(<<>>, "tA")] }

\* the page the store returns for params with this offset
PageFor(listing, offset) ==
    IF offset = "" THEN listing.none
    ELSE IF offset = "tA" THEN listing.tA ELSE listing.tB

\* the generator object: the listing it reads, params["offset"], the
\* response at hand and the position of its for loop, the offsets it has
\* sent and the records it has yielded
IdleIteration == [pc |-> "idle", op |-> "_iterate", held |-> 0, pages |-> 0,
                  listing |-> [none |-> Page(<<>>, ""), tA |-> Page(<<>>, ""),
                               tB |-> Page(<<>>, "")],
                  offset |-> "", response |-> Page(<<>>, ""), idx |-> 0,
                  asked |-> <<>>, yielded |-> <<>>]

Iterations == 1 .. 2

\* self._iterate(base_url, ...) is called and its first item asked for:
\* params and offset are locals of the new generator
iterate_call(c, listing) ==
    /\ c \in Iterations
    /\ calls[c].pc \in {"idle", "done"}
    /\ started < MaxIterations
    /\ started' = started + 1
    /\ calls' = [calls EXCEPT ![c] = [IdleIteration EXCEPT !.pc = "iterate_acquire",
                                                          !.listing = listing]]
    /\ UNCHANGED <<semaphore, storeVars, cacheVars, lockVars, chatVars, betaGroups,
                   pendingMarks, now, forms, ev, job>>

\* async with self.semaphore of _iterate, then the one of _get
iterate_semaphore(c) ==
    /\ c \in Iterations
    /\ calls[c].pc \in {"iterate_acquire", "acquire"}
    /\ semaphore > 0
    /\ semaphore' = semaphore - 1
    /\ calls' = [calls EXCEPT ![c].held = @ + 1,
                              ![c].pc = IF @ = "iterate_acquire" THEN "acquire"
                                        ELSE "request"]
    /\ UNCHANGED handlerVars

\* response = await self._get(base_url, params, session): the store returns
\* the page of the offset in params
iterate_get(c) ==
    /\ c \in Iterations
    /\ calls[c].pc = "request"
    /\ calls' = [calls EXCEPT ![c].response = PageFor(calls[c].listing, calls[c].offset),
                              ![c].asked = Append(@, calls[c].offset),
                              ![c].pc = "sleep"]
    /\ UNCHANGED <<semaphore, handlerVars>>

\* the two airtable_sleep calls and the ends of the two async with blocks
iterate_release(c) ==
    /\ c \in Iterations
    /\ calls[c].pc \in {"sleep", "iterate_sleep"}
    /\ semaphore' = semaphore + 1
    /\ calls' = [calls EXCEPT ![c].held = @ - 1,
                              ![c].idx = 1,
                              ![c].pc = IF @ = "sleep" THEN "iterate_sleep"
                                        ELSE "yield"]
    /\ UNCHANGED handlerVars

\* the same step were the loop left after the first page
iterate_yield_one_page(c) ==
    LET p == calls[c]
    IN /\ c \in Iterations
       /\ p.pc = "yield"
       /\ calls' = [calls EXCEPT ![c] =
             IF p.idx <= Len(p.response.records)
             THEN [p EXCEPT !.yielded = Append(@, p.response.records[p.idx]),
                            !.idx = @ + 1]
             ELSE [p EXCEPT !.offset = p.response.offset, !.pc = "done"]]
       /\ UNCHANGED <<semaphore, handlerVars>>

\* for record in records: yield record; then offset = response.get("offset"),
\* break without one, else params.update(offset=offset) and the next page
iterate_yield(c) ==
    LET p == calls[c]
    IN /\ c \in Iterations
       /\ p.pc = "yield"
       /\ calls' = [calls EXCEPT ![c] =
             IF p.idx <= Len(p.response.records)
             THEN [p EXCEPT !.yielded = Append(@, p.response.records[p.idx]),
                            !.idx = @ + 1]
             ELSE [p EXCEPT !.offset = p.response.offset,
                            !.pc = IF p.response.offset = "" THEN "done"
                                   ELSE "iterate_acquire"]]
       /\ UNCHANGED <<semaphore, handlerVars>>

InitIterate ==
    /\ InitOnboard

NextIterate ==
    \E c \in Iterations :
        \/ \E listing \in Listings : iterate_call(c, listing)
        \/ iterate_semaphore(c)
        \/ iterate_get(c)
        \/ iterate_release(c)
        \/ iterate_yield(c)

SpecIterate == InitIterate /\ [][NextIterate]_vars

\* ---------------------------------------------------------------- claim C31
\* the offsets that lead through a listing, and its records page by page
RECURSIVE OffsetsFrom(_, _)
OffsetsFrom(listing, offset) ==
    LET next == PageFor(listing, offset).offset
    IN IF next = "" THEN <<offset>> ELSE <<offset>> \o OffsetsFrom(listing, next)

RECURSIVE RecordsFrom(_, _)
RecordsFrom(listing, offset) ==
    LET page == PageFor(listing, offset)
    IN IF page.offset = "" THEN page.records
       ELSE page.records \o RecordsFrom(listing, page.offset)

IsPrefix(s, t) == Len(s) <= Len(t) /\ SubSeq(t, 1, Len(s)) = s

Iterating(c) == c \in Iterations /\ calls[c].pc \notin {"idle"}

\* C31: an iteration asks for the first page, then for the page of each
\* offset the store returns, yields the records of each page once and in
\* order, and ends after the first page without an offset; a new iteration
\* starts from the first page again.
C31_Iterate ==
    \A c \in Calls :
        Iterating(c) =>
            /\ IsPrefix(calls[c].asked, OffsetsFrom(calls[c].listing, ""))
            /\ IsPrefix(calls[c].yielded, RecordsFrom(calls[c].listing, ""))
            /\ calls[c].pc = "done" =>
                  /\ calls[c].asked = OffsetsFrom(calls[c].listing, "")
                  /\ calls[c].yielded = RecordsFrom(calls[c].listing, "")

\* a listing of three pages, one of them empty, has been read to its end by
\* an iteration that was not the first one
C31_Witness ==
    \E c \in Calls :
        /\ Iterating(c)
        /\ calls[c].pc = "done"
        /\ calls[c].asked = <<"", "tB", "tA">>
        /\ calls[c].yielded = <<1, 2, 3>>
        /\ started > 1

\* ------------------------------------------- listings that run side by side
InitListings ==
    /\ InitOnboard

\* the calls that are started while others run: listings, the first one
\* a listing or a single request
ListingOps(c) == IF c = 1 THEN {"_iterate", "_get"} ELSE {"_iterate"}

\* every request is answered; the first listing may have a second page
NextListings ==
    \E c \in Calls :
        \/ \E op \in ListingOps(c) : call_storage(c, op)
        \/ semaphore_acquire(c)
        \/ run_request(c, 200)
        \/ airtable_sleep(c)
        \/ \E offset \in {c = 1, FALSE} : iterate_sleep(c, offset)

SpecListings == InitListings /\ [][NextListings]_vars

\* ---------------------------------------------------------------- claim C32
\* the calls that wait for a permit, and those that can give one back
Waiting == { c \in Calls : calls[c].pc \in {"iterate_acquire", "acquire"} }

Running == { c \in Calls : calls[c].pc \in {"request", "sleep", "iterate_sleep"} }

\* no permit is left, and every permit is held by a listing that waits for
\* the permit of its own _get
Deadlocked ==
    /\ semaphore = 0
    /\ Waiting # {}
    /\ Running = {}

\* C32: the record store client does not deadlock: whatever calls are
\* started side by side, five or more listings among them, every call gets
\* the permits it needs and ends, every request being answered.
C32_AsStated == ~Deadlocked

\* what does hold: from such a state no call ever goes on, and with fewer
\* listings than permits there is no such state
DeadlockedForGood ==
    /\ [][Deadlocked => (Deadlocked' /\ \A c \in Waiting : calls'[c] = calls[c])]_vars
    /\ [](Cardinality({c \in Calls : calls[c].op = "_iterate" /\ calls[c].held > 0})
            < SemaphoreValue => ~Deadlocked)

\* ---------------------------------------------------------------- claim C33
\* refresh_cache holds the negative-cache lock and, inside retrieve_config,
\* waits for it
RefreshStuck == job.pc = "deadlock"

\* C33: every run of refresh_cache ends and has released config_lock and
\* the negative-cache lock, whatever the negative cache holds, a key that is
\* still absent included; get_config is not blocked afterwards.
C33_AsStated == ~RefreshStuck

\* a get_config of an absent key waits for the lock the stuck run holds
GetConfigBlocked ==
    /\ RefreshStuck
    /\ \E e \in Events : ev[e].pc = "negative_cache" /\ ev[e].key # job.key

\* what does hold: the run gets stuck only at a key of the negative cache
\* that the store still does not hold, it holds the negative-cache lock and
\* not config_lock, and it stays there
StuckOnAbsentKey ==
    /\ [](RefreshStuck => /\ job.key \in negCache
                          /\ Head(negLock) = 0
                          /\ 0 \notin SeqToSet(cfgLock))
    /\ [][(~RefreshStuck /\ RefreshStuck') => cfgStore[job'.key] = ""]_vars
    /\ [][RefreshStuck => (RefreshStuck' /\ job'.key = job.key /\ Head(negLock') = 0)]_vars

\* ---------------------------------------------------------------- claim C34
\* the run of refresh_cache has ended in an exception
RefreshRaised == job.pc = "raised"

\* C34: a run of refresh_cache reads again every key that was cached when
\* it started and ends without error, whatever get_config, retrieve_config
\* and clear_server_cache calls run beside it and add or remove keys.
C34_AsStated == ~RefreshRaised

\* what does hold: the run raises only at the next step of a loop over a
\* dict or a set that a call beside it has made larger or smaller
RaisedOnChangedSize ==
    [][(~RefreshRaised /\ RefreshRaised')
        => \/ Cardinality({k \in ConfigKeys : cfgCache'[k] # "?"}) # job.size
           \/ Cardinality(negCache) # job.size]_vars

\* ---------------------------------------------------------------- claim C35
\* the messages that carry the completion reaction of the approval handler
Completed == Marked("white_check_mark")

\* C35: a notification carries the completion reaction only if the store
\* holds its TestingRequest as approved: a run whose update of the request
\* failed adds no completion reaction.
C35_AsStated ==
    \A m \in Completed :
        /\ fetch_request(m) # NoRequest
        /\ fetch_request(m).approved

\* the run whose update_request failed has added the completion reaction
MarkedAfterFailedUpdate ==
    \E e \in Events :
        /\ ev[e].failed = "AirTableError"
        /\ ev[e].reported
        /\ ev[e].msg \in Completed
        /\ ~fetch_request(ev[e].msg).approved

\* what does hold: the completion reaction is added by a run that has
\* stored the request as approved, or whose update_request has failed and
\* been reported in the channel
MarkedAfterUpdateAttempt ==
    [][\A e \in Events :
         (ev[e].pc = "mark_approved" /\ ev'[e].pc # "mark_approved") =>
            \/ \E r \in requests : r.id = ev[e].req.id /\ r.approved
            \/ ev[e].failed = "AirTableError" /\ ev[e].reported]_vars

\* ---------------------------------------------------------------- claim C36
\* every handler is over
AllOver == \A e \in Events : ev[e].pc \in {"idle", "done", "raised"}

\* C36: once every handler is over, each notification sent for a request
\* has its id on that request, as the primary id or among the further ids,
\* so that fetch_request of the message returns the request.
C36_AsStated ==
    AllOver =>
        \A r \in requests : \A i \in SentFor(r.id) :
            /\ i \in NotificationIds(r)
            /\ fetch_request(i) = r

\* a notification of a request was sent and its id is on no request
NotificationLost ==
    /\ AllOver
    /\ \E r \in requests : \E i \in SentFor(r.id) : fetch_request(i) = NoRequest

\* what does hold: a request that has been notified keeps the id of one
\* of its notifications, and an id on a request resolves to that request
SomeNotificationResolvable ==
    AllOver =>
        \A r \in requests :
            /\ SentFor(r.id) # {} => NotificationIds(r) # {}
            /\ \A i \in NotificationIds(r) : fetch_request(i) = r

\* ---------------------------------------------------------------- claim C37
\* the emails the Testers table holds for a user
EmailsOf(table, user) == { t.email : t \in { x \in table : x.discord = user } }

\* a reaction handler writes the Tester: upsert_tester after find_tester, or
\* after the registration prompt
HandlerUpsert(e) ==
    /\ ev[e].pc \in {"upsert_tester", "send_registration"}
    /\ ev'[e].pc # ev[e].pc

\* C37: the handling of a reaction leaves the registered data of the
\* tester as it is: however a gated reaction and a form submission of the
\* user interleave, once both are over the Tester holds the email of the
\* form, and no upsert of the handler changes the email.
C37_AsStated ==
    /\ []((forms > 0 /\ AllOver) => EmailsOf(testers, "u1") = {"u1"})
    /\ [][\A e \in Events :
            HandlerUpsert(e) =>
                EmailsOf(testers', ev[e].user) \subseteq EmailsOf(testers, ev[e].user) \cup {""}]_vars

\* the form's email has been replaced by the one the handler had read
FormEmailOverwritten ==
    /\ forms > 0
    /\ AllOver
    /\ started > 0
    /\ EmailsOf(testers, "u1") = {"e0"}

\* what does hold: the upsert of a handler that read a Tester without an
\* email, or found none, leaves the email on record as it is
UnreadEmailKept ==
    [][\A e \in Events :
         (HandlerUpsert(e) /\ ev[e].tester.email = "") =>
            EmailsOf(testers', ev[e].user) \subseteq EmailsOf(testers, ev[e].user) \cup {""}]_vars

\* ---------------------------------------------------------------- claim C38
\* a user who reacted before registering, with requests waiting for the
\* form, and another tester with a request of their own; the guild may have
\* no default approvals channel
WaitingRequests ==
    { [NoRequest EXCEPT !.id = 3, !.tester = 1, !.discord = "u1",  !.app = "A1"],
      [NoRequest EXCEPT !.id = 4, !.tester = 1, !.discord = "u1",  !.app = "A2"],
      [NoRequest EXCEPT !.id = 5, !.tester = 2, !.discord = "mod", !.app = "A1"] }

InitForm ==
    /\ Constructed
    /\ testers = { [NoTester EXCEPT !.id = 1, !.discord = "u1"],
                   [NoTester EXCEPT !.id = 2, !.discord = "mod", !.email = "mod"] }
    /\ requests \in SUBSET WaitingRequests
    /\ rrStore = AllReactionRoles
    /\ cfgStore \in { c \in GuildConfigs : /\ c.rule_agreement_role = "rRules"
                                          /\ c.rule_agreement_message = "chRules" }
    /\ nextRec = 6
    /\ memberRoles = [u \in Users |-> {}]
    /\ betaGroups = {}

SpecForm == InitForm /\ [][NextOnboard]_vars

\* the step of this behaviour is the submission of the form
FormSubmitted == forms' = forms + 1

\* send_request_notification_message finds a channel for the request: the
\* app's own, else the guild's default, known to the client
ChannelResolves(r) ==
    LET channel == IF Apps[r.app].channel # "" THEN Apps[r.app].channel
                   ELSE CachedConfig("default_approvals_channel")
    IN channel \in GuildChannels

\* the messages the step sends for the request
NewlySentFor(id) ==
    { i \in (Len(sent) + 1)..Len(sent') :
        sent'[i].kind = "notification" /\ sent'[i].req = id }

\* the step sends one notification for the request and stores its id
NotifiedOnce(r) ==
    /\ Cardinality(NewlySentFor(r.id)) = 1
    /\ \E q \in requests' : q.id = r.id /\ q.notif \in NewlySentFor(r.id)

\* the step sends nothing for the request and leaves it as it is
LeftAlone(r) == NewlySentFor(r.id) = {} /\ r \in requests'

FormLeftUnnotified ==
    /\ forms > 0
    /\ AllOver
    /\ \E r \in requests \cap WaitingRequests :
          r.discord = "u1" /\ SentFor(r.id) = {}

\* ---------------------------------------------------------------- claim C39
\* what get_tester_exit_notification_channel returns for the guild: nothing
\* configured, a channel of the guild, a channel the client does not find
ExitChannels == {"", "chDef", "chGone"}

\* ReactionRoles.on_raw_member_remove, up to the check of the configured
\* exit-notification channel
on_raw_member_remove(e, user, exit_notification_channel_id) ==
    /\ FreeSlot(e)
    /\ started' = started + 1
    /\ Set(e, [IdleEvent EXCEPT !.entry = "on_raw_member_remove", !.user = user,
                                !.key = "tester_exit_notification_channel",
                                !.value = exit_notification_channel_id,
                                !.pc = IF exit_notification_channel_id = "" THEN "done"
                                       ELSE "user_testing_apps"])
    /\ UNCHANGED <<httpVars, storeVars, cacheVars, lockVars, chatVars, betaGroups,
                   pendingMarks, now, forms, job>>

\* the apps of the user's active requests; none: return; the channel is not
\* found: return; else the leave notification is sent
user_testing_apps(e) ==
    LET p == ev[e]
        found == list_requests(p.user, DOMAIN Apps, FALSE, TRUE)
        posts == found # {} /\ p.value \in GuildChannels
    IN /\ p.pc = "user_testing_apps"
       /\ IF posts THEN Send("leave", p.value, p.user, 0) ELSE UNCHANGED sent
       /\ Set(e, [p EXCEPT !.storeCall = TRUE, !.existing = found,
                           !.chatWrite = posts,
                           !.msg = IF posts THEN Len(sent) + 1 ELSE 0,
                           !.pc = IF posts THEN "leave_find_tester" ELSE "done"])
       /\ UNCHANGED <<httpVars, storeVars, cacheVars, lockVars, botReactions, memberRoles,
                      betaGroups, pendingMarks, now, forms, started, job>>

\* tester = find_tester(payload.user.id); none: a message says so
leave_find_tester(e) ==
    LET p == ev[e]
        found == find_tester(p.user)
    IN /\ p.pc = "leave_find_tester"
       /\ IF found = NoTester THEN Send("diagnostic", p.value, p.user, 0)
          ELSE UNCHANGED sent
       /\ Set(e, [p EXCEPT !.tester = found,
                           !.pc = IF found = NoTester THEN "done"
                                  ELSE "leave_upsert_tester"])
       /\ UNCHANGED <<httpVars, storeVars, cacheVars, lockVars, botReactions, memberRoles,
                      betaGroups, pendingMarks, now, forms, started, job>>

\* tester.leave_message_ids.append(message.id); upsert_tester(tester)
leave_upsert_tester(e) ==
    LET p == ev[e]
        tester == [p.tester EXCEPT !.leave = @ \cup {p.msg}]
    IN /\ p.pc = "leave_upsert_tester"
       /\ testers' = TestersAfterUpsert(tester)
       /\ nextRec' = NextRecAfterUpsert(tester)
       /\ Set(e, [p EXCEPT !.tester = upsert_tester(tester), !.pc = "done"])
       /\ UNCHANGED <<httpVars, requests, rrStore, cfgStore, cacheVars, lockVars, chatVars,
                      betaGroups, pendingMarks, now, forms, started, job>>

\* a tester, registered or not, with an active request, a removed one or
\* none, who reacts, submits the form and leaves the guild
LeavingRequests ==
    { [NoRequest EXCEPT !.id = 3, !.tester = 1, !.discord = "u1", !.app = "A1"],
      [NoRequest EXCEPT !.id = 4, !.tester = 1, !.discord = "u1", !.app = "A2",
                        !.removed = TRUE] }

InitLeave ==
    /\ Constructed
    /\ \E email \in {"", "u1"} :
          testers = { [NoTester EXCEPT !.id = 1, !.discord = "u1", !.email = email],
                      [NoTester EXCEPT !.id = 2, !.discord = "mod", !.email = "mod"] }
    /\ requests \in SUBSET LeavingRequests
    /\ rrStore = AllReactionRoles
    /\ cfgStore \in { c \in GuildConfigs : /\ c.default_approvals_channel = "chDef"
                                          /\ c.rule_agreement_role = "rRules"
                                          /\ c.rule_agreement_message = "chRules" }
    /\ nextRec = 5
    /\ memberRoles = [u \in Users |-> {}]
    /\ betaGroups = {}

NextLeave ==
    \/ \E e \in Events :
        \/ \E channel \in ExitChannels :
              started < MaxEvents /\ on_raw_member_remove(e, "u1", channel)
        \/ user_testing_apps(e)
        \/ leave_find_tester(e)
        \/ leave_upsert_tester(e)
    \/ NextOnboard

SpecLeave == InitLeave /\ [][NextLeave]_vars

\* a member-left event that has been handled
LeaveRun(e) == ev[e].entry = "on_raw_member_remove" /\ ev[e].pc = "done"

\* the event is at a step of on_raw_member_remove
LeaveStep(e) == ev[e].entry = "on_raw_member_remove" /\ ev'[e] # ev[e]

\* the leave notifications posted for a user
LeaveMessagesOf(user) ==
    { i \in 1..Len(sent) : sent[i].kind = "leave" /\ sent[i].to = user }

\* the testers find_tester_by_leave_message can return for a message
LeaveMessageTesters(m) == { t \in testers : m \in t.leave }

\* the event found an exit channel configured and an active request
ExitConfiguredAndActive(e) == ev[e].value # "" /\ ev[e].existing # {}

\* C39: once a member-left event in a guild with a configured exit channel
\* is handled, for a user with an active request one leave notification has
\* been posted and its id resolves to the tester of the user from then on;
\* for a user without active request, or without configured channel, nothing
\* is posted and no step of the handler changes a record.
C39_AsStated ==
    /\ [](\A e \in Events :
            LeaveRun(e) =>
               IF ExitConfiguredAndActive(e)
               THEN /\ ev[e].msg \in LeaveMessagesOf(ev[e].user)
                    /\ LeaveMessageTesters(ev[e].msg) = {find_tester(ev[e].user)}
               ELSE ev[e].msg = 0)
    /\ [][\A e \in Events :
            LeaveStep(e) =>
               /\ Len(sent') <= Len(sent) + 1
               /\ (ev'[e].pc = "done" /\ ~ExitConfiguredAndActive(e)')
                     => UNCHANGED <<sent, testers, requests>>]_vars

\* the leave notification was posted, its id is on no tester
LeaveIdLost ==
    \E e \in Events :
        /\ LeaveRun(e)
        /\ ev[e].msg \in LeaveMessagesOf(ev[e].user)
        /\ LeaveMessageTesters(ev[e].msg) = {}

\* an exit channel is configured, the user has an active request, nothing
\* was posted
LeaveNotPosted ==
    \E e \in Events :
        /\ LeaveRun(e)
        /\ ExitConfiguredAndActive(e)
        /\ ev[e].msg = 0

\* what does hold: a handled event has posted a leave notification exactly
\* when a channel was configured and found and the user had an active
\* request; the upsert that ends the handler leaves the id of the message
\* on the tester of the user and on no other; a handler that posts nothing
\* changes no record.
LeaveIdStoredAtUpsert ==
    /\ [](\A e \in Events :
            LeaveRun(e) =>
               /\ ev[e].msg # 0 <=> (ExitConfiguredAndActive(e) /\ ev[e].value \in GuildChannels)
               /\ ev[e].msg # 0 => ev[e].msg \in LeaveMessagesOf(ev[e].user))
    /\ [][\A e \in Events :
            LeaveStep(e) =>
               /\ Len(sent') <= Len(sent) + 1
               /\ (ev[e].pc = "leave_upsert_tester")
                     => LeaveMessageTesters(ev[e].msg)' = {find_tester(ev[e].user)}'
               /\ (ev'[e].pc = "done" /\ ev'[e].msg = 0)
                     => UNCHANGED <<sent, testers, requests>>]_vars

====
